---------------------------- MODULE Spec2Model ----------------------------
(* A model of importall: the merge of the public names of the standard    *)
(* library modules into one symbol table (get_all_symbols), its injection *)
(* into a namespace (importall) and its reversal (deimportall).           *)
(*                                                                         *)
(* Module identifiers are Python strings; they are modelled as sequences  *)
(* of character codes so that the lexicographic comparison that sorted()  *)
(* performs on them is computed, not assumed.                             *)
EXTENDS Integers, Sequences, FiniteSets, TLC

---------------------------------------------------------------------------
(* Bounds of the model                                                     *)

\* largest number of modules a caller names in `prioritized` and `ignore`
\* together
MaxNamed == 2
\* number of successive get_all_symbols() calls explored
MaxCalls == 2
\* number of uses of lazily bound names explored
MaxUses == 2

---------------------------------------------------------------------------
(* The environment: module identifiers, the running version, data tables   *)

binhex     == <<98, 105, 110, 104, 101, 120>>
builtins   == <<98, 117, 105, 108, 116, 105, 110, 115>>
lzma       == <<108, 122, 109, 97>>
os         == <<111, 115>>
typing     == <<116, 121, 112, 105, 110, 103>>
webbrowser == <<119, 101, 98, 98, 114, 111, 119, 115, 101, 114>>
zlib       == <<122, 108, 105, 98>>
\* the caller's own module, "__main__": never part of the registry
main       == <<95, 95, 109, 97, 105, 110, 95, 95>>
\* modules of the deprecation data outside the sample the registry holds
asynchat   == <<97, 115, 121, 110, 99, 104, 97, 116>>
inspect    == <<105, 110, 115, 112, 101, 99, 116>>
optparse   == <<111, 112, 116, 112, 97, 114, 115, 101>>
\* "gugugugugugugugugugugu": a name no module bears
INEXISTENT_MODULE ==
    <<103, 117, 103, 117, 103, 117, 103, 117, 103, 117, 103, 117,
      103, 117, 103, 117, 103, 117, 103, 117, 103, 117>>

IMPORTABLE_STDLIB_MODULES ==
    {binhex, builtins, lzma, os, typing, webbrowser, zlib}

\* frozenset(dir(builtins)) - {...}: `open` is also exported by lzma and
\* webbrowser, `len` and `__import__` by no other module
BUILTINS_NAMES == {"__import__", "len", "open"}

\* sys.version_info[:2] of the running interpreter
version_info == <<3, 9>>

\* deprecated_modules.json: version floor -> modules deprecated since then
DEPRECATED_MODULES ==
    (<<3, 9>> :> {binhex}) @@
    (<<3, 6>> :> {asynchat}) @@
    (<<3, 2>> :> {optparse})

\* deprecated_names.json: version floor -> module -> names deprecated since
DEPRECATED_NAMES ==
    (<<3, 9>> :> (typing :> {"List"})) @@
    (<<3, 5>> :> (inspect :> {"getcallargs"})) @@
    (<<3, 0>> :> (inspect :> {"getargspec"}))

\* stdlib_public_names/<version>.json: module -> its public names
STDLIB_PUBLIC_NAMES ==
    (binhex     :> {"Error", "hexbin"}) @@
    (builtins   :> {"__import__", "len", "open"}) @@
    (lzma       :> {"compress", "open"}) @@
    (os         :> {"environ", "sep"}) @@
    (typing     :> {"Any", "List"}) @@
    (webbrowser :> {"Error", "open"}) @@
    (zlib       :> {"compress"})

Names == UNION {STDLIB_PUBLIC_NAMES[m] : m \in DOMAIN STDLIB_PUBLIC_NAMES}

\* the objects that hold these tables once they are loaded
SharedTables ==
    [IMPORTABLE_STDLIB_MODULES |-> IMPORTABLE_STDLIB_MODULES,
     DEPRECATED_MODULES |-> DEPRECATED_MODULES,
     DEPRECATED_NAMES |-> DEPRECATED_NAMES,
     STDLIB_PUBLIC_NAMES |-> STDLIB_PUBLIC_NAMES]

---------------------------------------------------------------------------
(* Python values                                                           *)

\* the object bound to `name` in the loaded module `module`
Attr(module, name) == [kind |-> "obj", ref |-> <<module, name>>]
\* the module object itself
ModuleObj(module) == [kind |-> "module", ref |-> <<module, "">>]
\* lazy_object_proxy.Proxy(partial(eager_import, name)) built for `module`
Proxy(module, name) == [kind |-> "proxy", ref |-> <<module, name>>]
\* an object created by the caller's own code
UserObj(name) == [kind |-> "user", ref |-> <<main, name>>]

\* the object a value stands for: a proxy forwards to what its thunk returns
Wrapped(v) == IF v.kind = "proxy" THEN Attr(v.ref[1], v.ref[2]) ELSE v

\* hash(v) succeeds; os.environ (a mapping) and a user's list do not hash,
\* and a proxy forwards __hash__ to the wrapped object
Hashable(v) ==
    LET w == Wrapped(v)
    IN  ~ (w = Attr(os, "environ") \/ w = UserObj("ulist"))

\* the representative of v under ==: the user's string "sep_copy" is equal
\* to os.sep without being the same object; a proxy forwards __eq__
EqKey(v) ==
    LET w == Wrapped(v)
    IN  IF w = UserObj("sep_copy") THEN Attr(os, "sep") ELSE w

---------------------------------------------------------------------------
(* Dictionaries and strings                                                *)

EmptyDict == [k \in {} |-> k]

\* d.get(key, default)
DictGet(d, key, default) == IF key \in DOMAIN d THEN d[key] ELSE default

\* an update in which the entries already present are kept
DictUpdate_KeepFirst(a, b) ==
    [k \in (DOMAIN a) \cup (DOMAIN b) |-> IF k \in DOMAIN a THEN a[k] ELSE b[k]]

\* a |= b   (also a.update(b)): the entries of b overwrite those of a
DictUpdate(a, b) ==
    [k \in (DOMAIN a) \cup (DOMAIN b) |-> IF k \in DOMAIN b THEN b[k] ELSE a[k]]

\* a pop that removes nothing
DictPop_Nothing(d, S) == d

\* d with the keys of S popped: d.pop(k, None) for k in S
DictPop(d, S) == [k \in (DOMAIN d) \ S |-> d[k]]

\* s < t for Python strings: code point by code point, a proper prefix first
RECURSIVE StrLess(_, _)
StrLess(s, t) ==
    IF t = <<>> THEN FALSE
    ELSE IF s = <<>> THEN TRUE
    ELSE IF Head(s) # Head(t) THEN Head(s) < Head(t)
    ELSE StrLess(Tail(s), Tail(t))

\* a tuple comparison whose second component is compared the wrong way round
TupleLess_TieReversed(a, b) ==
    a[1] < b[1] \/ (a[1] = b[1] /\ StrLess(b[2], a[2]))

\* a < b for the tuples (int, str) that the sort key produces
TupleLess(a, b) == a[1] < b[1] \/ (a[1] = b[1] /\ StrLess(a[2], b[2]))

\* a >= b for version tuples (major, minor)
VersionGE(a, b) == a[1] > b[1] \/ (a[1] = b[1] /\ a[2] >= b[2])

\* s consists of decimal digits, one at least: it matches \d+
IsDigits(s) == Len(s) >= 1 /\ \A i \in 1 .. Len(s) : s[i] \in 48 .. 57

\* int(s) for a string of decimal digits
RECURSIVE int(_)
int(s) ==
    IF s = <<>> THEN 0
    ELSE int(SubSeq(s, 1, Len(s) - 1)) * 10 + (s[Len(s)] - 48)

\* the outcome of a call that raises ValueError
ValueError == [raises |-> "ValueError"]

\* a conversion that reads one digit of the minor version
convert_version_to_tuple_OneDigitMinor(version) ==
    LET dots == {i \in 1 .. Len(version) : version[i] = 46}
        dot == CHOOSE i \in dots : TRUE
        major == SubSeq(version, 1, dot - 1)
        minor == SubSeq(version, dot + 1, Len(version))
    IN  IF Cardinality(dots) = 1 /\ IsDigits(major) /\ IsDigits(minor)
        THEN <<int(major), int(SubSeq(minor, 1, 1))>>
        ELSE ValueError

\* convert_version_to_tuple(version): the text must match \d+\.\d+ as a
\* whole, and its two numbers are read as decimal integers
convert_version_to_tuple(version) ==
    LET dots == {i \in 1 .. Len(version) : version[i] = 46}
        dot == CHOOSE i \in dots : TRUE
        major == SubSeq(version, 1, dot - 1)
        minor == SubSeq(version, dot + 1, Len(version))
    IN  IF Cardinality(dots) = 1 /\ IsDigits(major) /\ IsDigits(minor)
        THEN <<int(major), int(minor)>>
        ELSE ValueError

---------------------------------------------------------------------------
(* Deprecation filter                                                      *)

\* deprecated_modules(version=...): the modules deprecated as of version_tuple
deprecated_modules(version_tuple) ==
    UNION {DEPRECATED_MODULES[v] :
             v \in {w \in DOMAIN DEPRECATED_MODULES : VersionGE(version_tuple, w)}}

\* deprecated_names(version=..., module=...): the names of `module` deprecated
\* as of version_tuple
deprecated_names(version_tuple, module) ==
    UNION {DEPRECATED_NAMES[v][module] :
             v \in {w \in DOMAIN DEPRECATED_NAMES :
                      /\ VersionGE(version_tuple, w)
                      /\ module \in DOMAIN DEPRECATED_NAMES[w]}}

\* stdlib_public_names(module): a fresh set of the recorded public names
stdlib_public_names(module) == STDLIB_PUBLIC_NAMES[module]

---------------------------------------------------------------------------
(* import_public_names and get_all_symbols                                 *)

\* the public names without the removal of the deprecated ones
public_names_KeepDeprecated(module_name, include_deprecated) ==
    stdlib_public_names(module_name)

\* the names import_public_names() puts in its table
public_names(module_name, include_deprecated) ==
    IF include_deprecated
    THEN stdlib_public_names(module_name)
    ELSE stdlib_public_names(module_name)
           \ deprecated_names(version_info, module_name)

\* a lazy table whose thunks all read one and the same name of the module
import_public_names_LateBound(module_name, lazy, include_deprecated) ==
    LET names == public_names(module_name, include_deprecated)
        last == CHOOSE n \in names : TRUE
    IN  [name \in names |->
            IF lazy THEN Proxy(module_name, last) ELSE Attr(module_name, name)]

\* import_public_names(module_name, lazy=..., include_deprecated=...)
import_public_names(module_name, lazy, include_deprecated) ==
    [name \in public_names(module_name, include_deprecated) |->
        IF lazy THEN Proxy(module_name, name) ELSE Attr(module_name, name)]

\* a conversion that treats an iterable as if it were empty
Priorities_IterableDropped(prioritized) ==
    IF prioritized.form = "mapping" THEN prioritized.map ELSE EmptyDict

\* the `priorities` mapping get_all_symbols derives from `prioritized`
Priorities(prioritized) ==
    IF prioritized.form = "mapping"
    THEN prioritized.map
    ELSE [module \in prioritized.items |-> 1]

\* a sort key without the priority score
SortKey_NameOnly(priorities, name) == <<0, name>>

\* a sort key without the module name
SortKey_ScoreOnly(priorities, name) == <<DictGet(priorities, name, 0), <<>>>>

\* key=lambda name: (priorities.get(name, 0), name)
SortKey(priorities, name) == <<DictGet(priorities, name, 0), name>>

\* the folded modules without the removal of the ignored ones
IncludedModules_IgnoreUnused(include_deprecated, ignore) ==
    IF include_deprecated
    THEN IMPORTABLE_STDLIB_MODULES
    ELSE IMPORTABLE_STDLIB_MODULES \ deprecated_modules(version_info)

\* the modules get_all_symbols() folds, before sorting
IncludedModules(include_deprecated, ignore) ==
    IF include_deprecated
    THEN IMPORTABLE_STDLIB_MODULES \ ignore
    ELSE (IMPORTABLE_STDLIB_MODULES \ ignore) \ deprecated_modules(version_info)

\* sorted(S, key=...): S is a set, iterated in an arbitrary order, and the
\* sort is stable, so the outcomes are the orderings of S in which no
\* element precedes one with a strictly smaller key
RECURSIVE Sorted(_, _)
Sorted(S, priorities) ==
    IF S = {} THEN {<<>>}
    ELSE UNION {
           {<<m>> \o rest : rest \in Sorted(S \ {m}, priorities)} :
             m \in {x \in S : \A y \in S :
                      ~ TupleLess(SortKey(priorities, y), SortKey(priorities, x))} }

\* for module_name in module_names: symtab |= import_public_names(...)
RECURSIVE Fold(_, _, _, _)
Fold(table, module_names, lazy, include_deprecated) ==
    IF module_names = <<>> THEN table
    ELSE Fold(DictUpdate(table,
                         import_public_names(Head(module_names), lazy,
                                             include_deprecated)),
              Tail(module_names), lazy, include_deprecated)

\* the tables get_all_symbols(lazy, include_deprecated, prioritized, ignore)
\* can return, one per outcome of the sort
get_all_symbols(a) ==
    {Fold(EmptyDict, module_names, a.lazy, a.include_deprecated) :
       module_names \in Sorted(IncludedModules(a.include_deprecated, a.ignore),
                               Priorities(a.prioritized))}

---------------------------------------------------------------------------
(* The objects the functions return and what they leave in the tables      *)

\* a set or a table that the function built during the call
Fresh == <<>>
\* (the object that the shared table `table` holds under `key` is
\* <<table, key>>)

\* the shared tables after `object` was changed in place to hold `value`
InPlace(t, object, value) ==
    IF object = Fresh THEN t
    ELSE [t EXCEPT ![object[1]][object[2]] = value]

\* a stdlib_public_names() that hands out the cached set itself
stdlib_public_names_object_Cached(module) ==
    <<"STDLIB_PUBLIC_NAMES", module>>

\* the object stdlib_public_names(module) returns: set(...) of the cached
\* frozenset, a new set
stdlib_public_names_object(module) == Fresh

\* the shared tables after import_public_names(module_name, ...): the
\* function does `public_names -= deprecated_names(module=module_name)` on
\* the object stdlib_public_names() returned
import_public_names_tables(t, module_name, include_deprecated) ==
    IF include_deprecated THEN t
    ELSE InPlace(t, stdlib_public_names_object(module_name),
                 t.STDLIB_PUBLIC_NAMES[module_name]
                    \ deprecated_names(version_info, module_name))

\* the shared tables after import_public_names() has run for each of
\* `module_names`
RECURSIVE fold_tables(_, _, _)
fold_tables(t, module_names, include_deprecated) ==
    IF module_names = {} THEN t
    ELSE LET module_name == CHOOSE m \in module_names : TRUE
         IN  fold_tables(import_public_names_tables(t, module_name,
                                                    include_deprecated),
                         module_names \ {module_name}, include_deprecated)

\* the shared tables after get_all_symbols(**a)
get_all_symbols_tables(t, a) ==
    fold_tables(t, IncludedModules(a.include_deprecated, a.ignore),
                a.include_deprecated)

---------------------------------------------------------------------------
(* State                                                                   *)

VARIABLES
    args,          \* arguments of the latest get_all_symbols() call
    symtab,        \* the table that call returned
    prev_args,     \* arguments of the call before it
    prev_symtab,   \* the table the call before it returned
    ncalls,        \* number of get_all_symbols() calls made
    sys_modules,   \* sys.modules: identifiers of the loaded modules
    ns,            \* a mapping the caller built and passes as `globals`
    f_globals,     \* the global scope of the caller's module
    stdlib_checker,\* the StdlibChecker singleton has been constructed
    realized,      \* per namespace, the keys bound to a proxy already
                   \* realized -> the load of the module its value is from
    calls,         \* the importall()/deimportall() calls made, in order
    loads,         \* module -> number of times its top-level code has run
    uses,          \* the uses of lazily bound names made, in order
    unavailable,   \* the modules of the registry that cannot be loaded in
                   \* this environment: importing one raises
    tables,        \* the process-wide tables: the registry, the deprecation
                   \* tables and the cached tables of public names
    error          \* the exception the latest get_all_symbols() or
                   \* import_public_names() call raised, "" if it returned

merge_vars ==
    <<args, symtab, prev_args, prev_symtab, ncalls, sys_modules, loads,
      unavailable, tables, error>>

namespace_vars == <<ns, f_globals, stdlib_checker, realized, calls, uses>>

vars == <<merge_vars, namespace_vars>>

NoArgs == [lazy |-> TRUE, include_deprecated |-> FALSE,
           prioritized |-> [form |-> "none", items |-> {}, map |-> EmptyDict],
           ignore |-> {}]

---------------------------------------------------------------------------
(* Arguments callers pass                                                  *)

SubsetsUpTo(S, n) == {T \in SUBSET S : Cardinality(T) <= n}

\* the scores a caller's mapping assigns: below and above the default 0
Scores == {-1, 1}

\* prioritized=<an iterable of the modules S>
IterablePrioritized(S) == [form |-> "iterable", items |-> S, map |-> EmptyDict]

\* prioritized=<the mapping f>
MappingPrioritized(f) == [form |-> "mapping", items |-> {}, map |-> f]

\* the values of `prioritized` that name the modules D
PrioritizedNaming(D) ==
    {IterablePrioritized(D)} \cup {MappingPrioritized(f) : f \in [D -> Scores]}

\* the keyword arguments of get_all_symbols() that name at most MaxNamed modules
MergeArgs ==
    UNION {[lazy : BOOLEAN, include_deprecated : BOOLEAN,
            prioritized : PrioritizedNaming(D),
            ignore : SubsetsUpTo(IMPORTABLE_STDLIB_MODULES,
                                 MaxNamed - Cardinality(D))] :
             D \in SubsetsUpTo(IMPORTABLE_STDLIB_MODULES, MaxNamed)}

\* the mapping {m: 1 for m in S} a caller writes instead of the iterable S
AsMapping(prioritized) ==
    MappingPrioritized([module \in prioritized.items |-> 1])

\* a caller's mapping with the scores of A and B exchanged
SwapScores(prioritized, A, B) ==
    [prioritized EXCEPT !.map =
        [module \in DOMAIN prioritized.map |->
            IF module = A THEN prioritized.map[B]
            ELSE IF module = B THEN prioritized.map[A]
            ELSE prioritized.map[module]]]

\* a caller's mapping with the default score 0 written out for every
\* module it does not mention
FillZeros(prioritized) ==
    [prioritized EXCEPT !.map =
        [module \in IMPORTABLE_STDLIB_MODULES |->
            IF module \in DOMAIN prioritized.map THEN prioritized.map[module]
            ELSE 0]]

\* the modules a caller's mapping gives a score other than the default
Scored(prioritized) ==
    {module \in DOMAIN prioritized.map : prioritized.map[module] # 0}

\* what a caller re-runs get_all_symbols() with after a call with `a`:
\* the same arguments, the iterable rewritten as a mapping, or a mapping
\* with its zero scores written out or with the scores of two of the
\* modules it scores exchanged
Rerun(a) ==
    {a}
    \cup (IF a.prioritized.form = "mapping"
          THEN {[a EXCEPT !.prioritized = FillZeros(a.prioritized)]}
          ELSE {})
    \cup (IF a.prioritized.form = "iterable"
          THEN {[a EXCEPT !.prioritized = AsMapping(a.prioritized)]}
          ELSE {[a EXCEPT !.prioritized = SwapScores(a.prioritized, A, B)] :
                  A \in Scored(a.prioritized), B \in Scored(a.prioritized)})

---------------------------------------------------------------------------
(* get_all_symbols() called repeatedly                                     *)

\* every folded module imported, also when the import is lazy
LoadedBy_AlsoLazy(a) == IncludedModules(a.include_deprecated, a.ignore)

\* importlib.import_module() of every folded module when the import is eager
LoadedBy(a) ==
    IF a.lazy THEN {} ELSE IncludedModules(a.include_deprecated, a.ignore)

\* importlib.import_module() of the modules `wanted`: a module that is not
\* in the cache is loaded, which runs its top-level code once more
Loaded(counts, cached, wanted) ==
    [m \in DOMAIN counts |->
        IF m \in wanted \ cached THEN counts[m] + 1 ELSE counts[m]]

\* get_all_symbols(**a) runs and returns `table`
get_all_symbols_returns(a, table) ==
    /\ symtab' = table
    /\ args' = a
    /\ prev_args' = args
    /\ prev_symtab' = symtab
    /\ ncalls' = ncalls + 1
    /\ sys_modules' = sys_modules \cup LoadedBy(a)
    /\ loads' = Loaded(loads, sys_modules, LoadedBy(a))
    /\ error' = ""
    /\ tables' = get_all_symbols_tables(tables, a)
    /\ UNCHANGED unavailable

\* the eager fold reaches a module that cannot be loaded
MergeRaises(a) == LoadedBy(a) \cap unavailable # {}

\* the position in module_names of the first module that cannot be loaded
FirstUnavailable(module_names) ==
    LET bad == {i \in 1 .. Len(module_names) : module_names[i] \in unavailable}
    IN  IF bad = {} THEN 0 ELSE CHOOSE i \in bad : \A j \in bad : i <= j

\* get_all_symbols(**a) runs with lazy=False over module_names and
\* importlib.import_module() raises in import_public_names(): the modules
\* sorted before the failing one have been imported, no table is returned
get_all_symbols_raises(a, module_names) ==
    LET imported == {module_names[j] :
                       j \in 1 .. (FirstUnavailable(module_names) - 1)}
    IN  /\ symtab' = EmptyDict
        /\ args' = a
        /\ prev_args' = args
        /\ prev_symtab' = symtab
        /\ ncalls' = ncalls + 1
        /\ sys_modules' = sys_modules \cup imported
        /\ loads' = Loaded(loads, sys_modules, imported)
        /\ error' = "ModuleNotFoundError"
        /\ UNCHANGED <<unavailable, tables>>

\* get_all_symbols(**a) runs to its end, by return or by exception
get_all_symbols_runs(a) ==
    IF MergeRaises(a)
    THEN \E module_names \in Sorted(IncludedModules(a.include_deprecated,
                                                    a.ignore),
                                    Priorities(a.prioritized)) :
            get_all_symbols_raises(a, module_names)
    ELSE \E table \in get_all_symbols(a) : get_all_symbols_returns(a, table)

\* a direct call of get_all_symbols(): no namespace is involved
get_all_symbols_call(a) ==
    /\ ncalls < MaxCalls
    /\ get_all_symbols_runs(a)
    /\ UNCHANGED namespace_vars

\* the global scope of a script run as __main__
ModuleGlobals ==
    ("__builtins__" :> ModuleObj(builtins)) @@ ("mine" :> UserObj("mine"))

NoneRealized == [ns |-> EmptyDict, f_globals |-> EmptyDict]

\* the interpreter has started: nothing of importall has run
Started ==
    /\ args = NoArgs
    /\ symtab = EmptyDict
    /\ prev_args = NoArgs
    /\ prev_symtab = EmptyDict
    /\ ncalls = 0
    /\ sys_modules = {builtins, os}
    /\ f_globals = ModuleGlobals
    /\ stdlib_checker = FALSE
    /\ realized = NoneRealized
    /\ calls = <<>>
    /\ loads = [m \in IMPORTABLE_STDLIB_MODULES |->
                  IF m \in {builtins, os} THEN 1 ELSE 0]
    /\ uses = <<>>
    /\ error = ""
    /\ tables = SharedTables

MergeInit ==
    /\ Started
    /\ ns = EmptyDict
    /\ unavailable = {}

MergeNext ==
    \E a \in (IF ncalls = 0 THEN MergeArgs ELSE Rerun(args)) :
        get_all_symbols_call(a)

MergeSpec == MergeInit /\ [][MergeNext]_vars

---------------------------------------------------------------------------
(* StdlibChecker and from_stdlib                                           *)

\* the values StdlibChecker._gather_info sees: every public name of every
\* importable module, eagerly imported with include_deprecated=True
gathered_symbols ==
    UNION {{import_public_names(module_name, FALSE, TRUE)[name] :
              name \in DOMAIN import_public_names(module_name, FALSE, TRUE)} :
             module_name \in IMPORTABLE_STDLIB_MODULES}

\* StdlibChecker._stdlib_symbols: a set, so membership is by hash and ==
stdlib_symbols ==
    {ModuleObj(module_name) : module_name \in IMPORTABLE_STDLIB_MODULES}
    \cup {EqKey(symbol) : symbol \in {v \in gathered_symbols : Hashable(v)}}

\* StdlibChecker._stdlib_symbol_ids: the identities of the unhashable values
stdlib_symbol_ids == {symbol \in gathered_symbols : ~ Hashable(symbol)}

\* a check that takes every value for a standard-library value
from_stdlib_EveryValue(symbol) == TRUE

\* from_stdlib(symbol) = StdlibChecker().check(symbol): `symbol in set`, and
\* on TypeError `id(symbol) in ids`; the id of a proxy is not the id of the
\* value it wraps
from_stdlib(symbol) ==
    IF Hashable(symbol)
    THEN EqKey(symbol) \in stdlib_symbols
    ELSE symbol \in stdlib_symbol_ids

---------------------------------------------------------------------------
(* clean_up_import_cache                                                   *)

\* mod.startswith(prefix)
StartsWith(mod, prefix) ==
    Len(prefix) <= Len(mod) /\ SubSeq(mod, 1, Len(prefix)) = prefix

\* clean_cache_of_submodules: the cached identifiers below module_name
Submodules(modules, module_name) ==
    {mod \in modules : StartsWith(mod, module_name \o <<46>>)}

\* clean_cache_of_ascendants: every proper dotted prefix of module_name
Ascendants(module_name) ==
    {SubSeq(module_name, 1, i - 1) :
       i \in {j \in 1 .. Len(module_name) : module_name[j] = 46}}

\* dotted identifiers and the module os.path stands for
os_path   == <<111, 115, 46, 112, 97, 116, 104>>
posixpath == <<112, 111, 115, 105, 120, 112, 97, 116, 104>>
xml       == <<120, 109, 108>>
xml_dom   == <<120, 109, 108, 46, 100, 111, 109>>

\* sys.modules[key].__name__: on a POSIX system the module cached as
\* "os.path" is posixpath; every other module bears the name of its key
ModuleName(key) == IF key = os_path THEN posixpath ELSE key

\* clean_cache_of_alias: `del sys.modules[module.__name__]` raises KeyError
\* where the module's own name is not a key of the cache
clean_cache_of_alias_raises(modules, module_name) ==
    /\ ModuleName(module_name) # module_name
    /\ ModuleName(module_name) \notin modules

\* clean_up_import_cache(module_name) raises KeyError
clean_up_import_cache_raises(modules, module_name) ==
    /\ module_name \in modules
    /\ clean_cache_of_alias_raises(modules, module_name)

clean_cache_of_alias(modules, module_name) ==
    IF ModuleName(module_name) # module_name
    THEN modules \ {ModuleName(module_name)}
    ELSE modules

\* clean_up_import_cache(module_name) applied to the cache `modules`; a
\* call that raises does so before it has removed a key
clean_up_import_cache(modules, module_name) ==
    IF module_name \notin modules THEN modules
    ELSE IF clean_cache_of_alias_raises(modules, module_name) THEN modules
    ELSE LET unaliased == clean_cache_of_alias(modules, module_name)
         IN  ((unaliased \ Submodules(unaliased, module_name))
                 \ Ascendants(module_name)) \ {module_name}

\* for module_name in IMPORTABLE_STDLIB_MODULES: clean_up_import_cache(...)
\* the identifiers modelled are top-level ones, so every eviction removes
\* one entry and the evictions commute
RECURSIVE PurgeCache(_, _)
PurgeCache(modules, todo) ==
    IF todo = {} THEN modules
    ELSE LET module_name == CHOOSE m \in todo : TRUE
         IN  PurgeCache(clean_up_import_cache(modules, module_name),
                        todo \ {module_name})

---------------------------------------------------------------------------
(* importall and deimportall                                               *)

\* the mappings a caller has built before the first call
InitialNamespaces ==
    { EmptyDict,
      ("mine" :> UserObj("mine")),
      ("compress" :> UserObj("compress")) @@ ("open" :> UserObj("open"))
         @@ ("environ" :> UserObj("ulist")),
      ("sep0" :> Attr(os, "sep")) @@ ("sep_copy" :> UserObj("sep_copy"))
         @@ ("env" :> Attr(os, "environ")) }

\* the keyword arguments importall() forwards to get_all_symbols()
ImportallKwargs ==
    { NoArgs,
      [NoArgs EXCEPT !.lazy = FALSE],
      [NoArgs EXCEPT !.include_deprecated = TRUE],
      [NoArgs EXCEPT !.prioritized = IterablePrioritized({lzma})],
      [NoArgs EXCEPT !.ignore = {zlib}] }

\* the argument lists of importall(): `globals` is the caller's mapping or
\* is left out; a call from inside a function raises whatever it passes
ImportallCalls ==
    [globals : {"ns", "None"}, at_module_level : {TRUE},
     protect_builtins : BOOLEAN, kwargs : ImportallKwargs]
    \cup [globals : {"ns", "None"}, at_module_level : {FALSE},
          protect_builtins : {TRUE}, kwargs : {NoArgs}]

\* the argument lists of deimportall()
DeimportallCalls ==
    [globals : {"ns", "None"}, at_module_level : {TRUE}, purge_cache : BOOLEAN]
    \cup [globals : {"ns", "None"}, at_module_level : {FALSE},
          purge_cache : {FALSE}]

\* globals = globals or getcallerframe().f_globals: the mapping written,
\* an empty mapping being falsy
Destination(globals) ==
    IF globals = "ns" /\ ns # EmptyDict THEN "ns" ELSE "f_globals"

\* the entry appended to `calls` for a call
CallRecord(op, c, raised, table) ==
    [op |-> op, globals |-> c.globals, raised |-> raised,
     protect_builtins |-> IF op = "importall" THEN c.protect_builtins ELSE FALSE,
     purge_cache |-> IF op = "deimportall" THEN c.purge_cache ELSE FALSE,
     table |-> table, ns_before |-> ns, f_globals_before |-> f_globals,
     at_module_level |-> c.at_module_level, sys_modules_before |-> sys_modules]

\* importall(globals, lazy=, protect_builtins=, include_deprecated=,
\*           prioritized=, ignore=)
importall(c) ==
    /\ Len(calls) < MaxCalls
    /\ IF ~ c.at_module_level
       THEN \* raise RuntimeError
            /\ calls' = Append(calls, CallRecord("importall", c, TRUE, EmptyDict))
            /\ UNCHANGED <<merge_vars, ns, f_globals, stdlib_checker, realized,
                           uses>>
       ELSE IF MergeRaises(c.kwargs)
       THEN \* get_all_symbols() raises ModuleNotFoundError
            /\ get_all_symbols_runs(c.kwargs)
            /\ calls' = Append(calls, CallRecord("importall", c, TRUE, EmptyDict))
            /\ UNCHANGED <<ns, f_globals, stdlib_checker, realized, uses>>
       ELSE \E table \in get_all_symbols(c.kwargs) :
              LET filtered == IF c.protect_builtins
                              THEN DictPop(table, BUILTINS_NAMES)
                              ELSE table
                  dest == Destination(c.globals)
              IN  /\ get_all_symbols_returns(c.kwargs, table)
                  /\ ns' = IF dest = "ns" THEN DictUpdate(ns, filtered) ELSE ns
                  /\ f_globals' = IF dest = "f_globals"
                                  THEN DictUpdate(f_globals, filtered)
                                  ELSE f_globals
                  /\ realized' = [realized EXCEPT
                                    ![dest] = DictPop(realized[dest],
                                                      DOMAIN filtered)]
                  /\ calls' = Append(calls,
                                     CallRecord("importall", c, FALSE, filtered))
                  /\ UNCHANGED <<stdlib_checker, uses>>

\* deimportall(globals, purge_cache=)
deimportall(c) ==
    /\ Len(calls) < MaxCalls
    /\ IF ~ c.at_module_level
       THEN \* raise RuntimeError
            /\ calls' = Append(calls, CallRecord("deimportall", c, TRUE, EmptyDict))
            /\ UNCHANGED <<merge_vars, ns, f_globals, stdlib_checker, realized,
                           uses>>
       ELSE IF /\ ~ stdlib_checker
               /\ (IF Destination(c.globals) = "ns" THEN ns ELSE f_globals)
                     # EmptyDict
               /\ IMPORTABLE_STDLIB_MODULES \cap unavailable # {}
       THEN \* the first from_stdlib() call constructs the checker, whose
            \* _gather_info imports every module, the registry being
            \* iterated in an arbitrary order: ModuleNotFoundError is raised
            \* after some of the other modules have been imported
            \E imported \in SUBSET (IMPORTABLE_STDLIB_MODULES \ unavailable) :
               /\ sys_modules' = sys_modules \cup imported
               /\ loads' = Loaded(loads, sys_modules, imported)
               /\ calls' = Append(calls,
                                  CallRecord("deimportall", c, TRUE, EmptyDict))
               /\ UNCHANGED <<args, symtab, prev_args, prev_symtab, ncalls,
                              unavailable, tables, error, ns, f_globals,
                              stdlib_checker, realized, uses>>
       ELSE LET dest    == Destination(c.globals)
                g       == IF dest = "ns" THEN ns ELSE f_globals
                kept    == [name \in {k \in DOMAIN g : ~ from_stdlib(g[k])} |-> g[name]]
                \* a membership test hashes a proxy, which realizes it
                hashed  == {k \in DOMAIN g : g[k].kind = "proxy"}
                fresh   == hashed \ DOMAIN realized[dest]
                \* the first from_stdlib() call constructs the checker
                gathered == IF g = EmptyDict \/ stdlib_checker
                            THEN {} ELSE IMPORTABLE_STDLIB_MODULES
                checked == sys_modules \cup gathered
                wanted  == {g[k].ref[1] : k \in fresh}
                loaded  == checked \cup wanted
                counts  == Loaded(Loaded(loads, sys_modules, gathered),
                                  checked, wanted)
            IN  /\ ns' = IF dest = "ns" THEN kept ELSE ns
                /\ f_globals' = IF dest = "f_globals" THEN kept ELSE f_globals
                /\ stdlib_checker' = (stdlib_checker \/ g # EmptyDict)
                /\ realized' = [realized EXCEPT
                                  ![dest] =
                                     [k \in hashed \cap DOMAIN kept |->
                                        IF k \in fresh THEN counts[g[k].ref[1]]
                                        ELSE realized[dest][k]]]
                /\ loads' = counts
                /\ sys_modules' = IF c.purge_cache
                                  THEN PurgeCache(loaded, IMPORTABLE_STDLIB_MODULES)
                                  ELSE loaded
                /\ calls' = Append(calls,
                                   CallRecord("deimportall", c, FALSE, EmptyDict))
                /\ UNCHANGED <<args, symtab, prev_args, prev_symtab, ncalls,
                               uses, unavailable, tables, error>>

Init ==
    /\ Started
    /\ ns \in InitialNamespaces
    /\ unavailable = {}

Next ==
    \/ \E c \in ImportallCalls : importall(c)
    \/ \E c \in DeimportallCalls : deimportall(c)

Spec == Init /\ [][Next]_vars

---------------------------------------------------------------------------
(* Lazy import: the caller uses names that importall() bound lazily        *)

\* a proxy that never keeps what its thunk returned
Cached_Never(cache, name) == FALSE

\* the proxy bound to `name` holds the value its thunk returned:
\* lazy_object_proxy.Proxy calls its factory on the first operation only
Cached(cache, name) == name \in DOMAIN cache

\* the call that created the proxy now bound to `name` in `dest`: the latest
\* importall() that wrote the name there
Maker(dest, name) ==
    LET made == {i \in 1 .. Len(calls) :
                   /\ calls[i].op = "importall" /\ ~ calls[i].raised
                   /\ name \in DOMAIN calls[i].table
                   /\ dest = (IF calls[i].globals = "ns"
                                 /\ calls[i].ns_before # EmptyDict
                              THEN "ns" ELSE "f_globals")}
    IN  IF made = {} THEN 0 ELSE CHOOSE i \in made : \A j \in made : j <= i

\* the caller's code evaluates `name` in `dest` and operates on the value:
\* the first operation on a proxy calls its thunk, eager_import(name), which
\* imports the module and reads the attribute; the proxy keeps the result
use(dest, name) ==
    LET g == IF dest = "ns" THEN ns ELSE f_globals
    IN  /\ Len(uses) < MaxUses
        /\ name \in DOMAIN g
        /\ g[name].kind = "proxy"
        /\ LET module_name == g[name].ref[1]
               counts == Loaded(loads, sys_modules, {module_name})
           IN  IF Cached(realized[dest], name)
               THEN /\ uses' = Append(uses,
                                      [dest |-> dest, name |-> name,
                                       maker |-> Maker(dest, name),
                                       module |-> module_name, thunk |-> FALSE,
                                       value |-> <<g[name].ref,
                                                   realized[dest][name]>>])
                    /\ UNCHANGED <<merge_vars, ns, f_globals, stdlib_checker,
                                   realized, calls>>
               ELSE IF module_name \in unavailable
               THEN \* the thunk raises ModuleNotFoundError: nothing is kept
                    /\ uses' = Append(uses,
                                      [dest |-> dest, name |-> name,
                                       maker |-> Maker(dest, name),
                                       module |-> module_name, thunk |-> TRUE,
                                       value |-> <<>>])
                    /\ UNCHANGED <<merge_vars, ns, f_globals, stdlib_checker,
                                   realized, calls>>
               ELSE /\ sys_modules' = sys_modules \cup {module_name}
                    /\ loads' = counts
                    /\ realized' =
                          [realized EXCEPT
                             ![dest] = DictUpdate(realized[dest],
                                                  (name :> counts[module_name]))]
                    /\ uses' = Append(uses,
                                      [dest |-> dest, name |-> name,
                                       maker |-> Maker(dest, name),
                                       module |-> module_name, thunk |-> TRUE,
                                       value |-> <<g[name].ref,
                                                   counts[module_name]>>])
                    /\ UNCHANGED <<args, symtab, prev_args, prev_symtab, ncalls,
                                   ns, f_globals, stdlib_checker, calls,
                                   unavailable, tables, error>>

\* clean_up_import_cache(module_name), called by the caller's code
clean_up_import_cache_call(module_name) ==
    /\ module_name \in sys_modules
    /\ sys_modules' = clean_up_import_cache(sys_modules, module_name)
    /\ UNCHANGED <<args, symtab, prev_args, prev_symtab, ncalls, loads,
                   unavailable, tables, error, namespace_vars>>

\* the keyword arguments of the lazy calls: the defaults, and lzma
\* prioritized so that `compress` is bound to another module
LazyKwargs == {NoArgs, [NoArgs EXCEPT !.prioritized = IterablePrioritized({lzma})]}

\* importall(...) and importall(ns, ...) with lazy=True at module level
LazyImportallCalls ==
    [globals : {"ns", "None"}, at_module_level : {TRUE},
     protect_builtins : {TRUE}, kwargs : LazyKwargs]

\* the names the caller's code uses, and the modules it evicts
UsedNames == {"Any", "compress"}
EvictedModules == {lzma, zlib}

LazyInit ==
    /\ Started
    /\ ns = ("mine" :> UserObj("mine"))
    /\ unavailable = {}

LazyNext ==
    \/ \E c \in LazyImportallCalls : ncalls < MaxCalls /\ importall(c)
    \/ \E a \in LazyKwargs : get_all_symbols_call(a)
    \/ \E dest \in {"ns", "f_globals"}, name \in UsedNames : use(dest, name)
    \/ \E module_name \in EvictedModules :
          clean_up_import_cache_call(module_name)

LazySpec == LazyInit /\ [][LazyNext]_vars

---------------------------------------------------------------------------
(* import_public_names() called directly, and the entries used             *)

\* table = import_public_names(module_name, lazy=..., include_deprecated=...)
\* in the caller's code, which keeps the table in `ns`: an eager call
\* imports the module, a lazy call creates one new proxy per name
import_public_names_call(module_name, lazy, include_deprecated) ==
    LET wanted == IF lazy THEN {} ELSE {module_name}
    IN  /\ ncalls < MaxCalls
        /\ args' = [module_name |-> module_name, lazy |-> lazy,
                    include_deprecated |-> include_deprecated]
        /\ prev_args' = args
        /\ prev_symtab' = symtab
        /\ ncalls' = ncalls + 1
        /\ IF wanted \cap unavailable # {}
           THEN \* importlib.import_module() raises: nothing is assigned
                /\ symtab' = EmptyDict
                /\ error' = "ModuleNotFoundError"
                /\ UNCHANGED <<sys_modules, loads, ns, realized>>
           ELSE /\ symtab' = import_public_names(module_name, lazy,
                                                 include_deprecated)
                /\ sys_modules' = sys_modules \cup wanted
                /\ loads' = Loaded(loads, sys_modules, wanted)
                /\ ns' = symtab'
                /\ realized' = [realized EXCEPT !.ns = EmptyDict]
                /\ error' = ""
        /\ tables' = import_public_names_tables(tables, module_name,
                                                include_deprecated)
        /\ UNCHANGED <<f_globals, stdlib_checker, calls, uses, unavailable>>

TableInit ==
    /\ Started
    /\ ns = EmptyDict
    /\ unavailable = {}

TableNext ==
    \/ \E module_name \in IMPORTABLE_STDLIB_MODULES, lazy \in BOOLEAN,
          include_deprecated \in BOOLEAN :
          import_public_names_call(module_name, lazy, include_deprecated)
    \/ \E name \in Names : use("ns", name)

TableSpec == TableInit /\ [][TableNext]_vars

---------------------------------------------------------------------------
(* Environments in which a module of the registry cannot be loaded         *)

\* the modules missing where the interpreter was built without the
\* compression libraries
Environments == {{lzma}, {zlib}, {lzma, zlib}}

\* the keyword arguments of the merges made in such an environment
EnvKwargs ==
    {[NoArgs EXCEPT !.lazy = lazy, !.ignore = ignore] :
        lazy \in BOOLEAN, ignore \in {{}, {lzma}, {zlib}}}

EnvImportallCalls ==
    [globals : {"ns"}, at_module_level : {TRUE}, protect_builtins : {TRUE},
     kwargs : {NoArgs, [NoArgs EXCEPT !.lazy = FALSE]}]

EnvDeimportallCalls ==
    [globals : {"ns"}, at_module_level : {TRUE}, purge_cache : {FALSE}]

EnvInit ==
    /\ Started
    /\ ns = ("mine" :> UserObj("mine"))
    /\ unavailable \in Environments

EnvNext ==
    \/ \E a \in EnvKwargs : get_all_symbols_call(a)
    \/ \E c \in EnvImportallCalls : ncalls < MaxCalls /\ importall(c)
    \/ \E c \in EnvDeimportallCalls : deimportall(c)
    \/ \E name \in UsedNames : use("ns", name)

EnvSpec == EnvInit /\ [][EnvNext]_vars

---------------------------------------------------------------------------

(* deprecated_modules() and deprecated_names() called with a version       *)

\* the `version` argument left out
None == [kind |-> "None"]
\* the `version` argument given as the string with the characters `text`
Str(text) == [kind |-> "str", text |-> text]

\* the version tuple a call works with: sys.version_info[:2] where no
\* version is given, else the conversion of the string
VersionTuple(version) ==
    IF version = None THEN version_info
    ELSE convert_version_to_tuple(version.text)

\* the call of `function` with `version` and `module` runs to its end,
\* by raising ValueError or by returning the set `result`
deprecation_call(function, version, module, raises, result) ==
    /\ ncalls < MaxCalls
    /\ args' = [function |-> function, version |-> version, module |-> module]
    /\ symtab' = [raised |-> raises, result |-> IF raises THEN {} ELSE result]
    /\ error' = IF raises THEN "ValueError" ELSE ""
    /\ prev_args' = args
    /\ prev_symtab' = symtab
    /\ ncalls' = ncalls + 1
    /\ UNCHANGED <<sys_modules, loads, unavailable, tables, namespace_vars>>

\* deprecated_modules(version): a string that is no version raises
deprecated_modules_call(version) ==
    deprecation_call("deprecated_modules", version, <<>>,
                     VersionTuple(version) = ValueError,
                     deprecated_modules(VersionTuple(version)))

\* deprecated_names(module, version=version): a module outside the
\* registry raises, and so does a string that is no version
deprecated_names_call(version, module) ==
    deprecation_call("deprecated_names", version, module,
                     \/ module \notin IMPORTABLE_STDLIB_MODULES
                     \/ VersionTuple(version) = ValueError,
                     deprecated_names(VersionTuple(version), module))

\* deprecated_names(module=module_name) as import_public_names calls it when
\* get_all_symbols aggregates: no version is given, and the function takes
\* no look at the registry
aggregation_deprecated_names_call_RegistryChecked(module) ==
    deprecation_call("utils.deprecated_names", None, module,
                     module \notin IMPORTABLE_STDLIB_MODULES,
                     deprecated_names(version_info, module))

aggregation_deprecated_names_call(module) ==
    deprecation_call("utils.deprecated_names", None, module,
                     FALSE,
                     deprecated_names(version_info, module))

\* str(n) for a natural number n
RECURSIVE str(_)
str(n) == IF n < 10 THEN <<48 + n>> ELSE str(n \div 10) \o <<48 + (n % 10)>>

\* ".".join(str(c) for c in sys.version_info[:2])
RunningVersion == str(version_info[1]) \o <<46>> \o str(version_info[2])

\* the versions <v> for which a file stdlib_public_names/<v>.json exists:
\* the one of the running interpreter
RecordedVersions == {RunningVersion}

\* re.fullmatch(r"\d+\.\d+", version) succeeds
IsVersionText(version) ==
    LET dots == {i \in 1 .. Len(version) : version[i] = 46}
        dot == CHOOSE i \in dots : TRUE
    IN  /\ Cardinality(dots) = 1
        /\ IsDigits(SubSeq(version, 1, dot - 1))
        /\ IsDigits(SubSeq(version, dot + 1, Len(version)))

\* the version string stdlib_public_names() loads the table of:
\* `version or ".".join(...)`, an empty string being falsy like None
VersionOrRunning(version) ==
    IF version = None \/ version.text = <<>> THEN RunningVersion
    ELSE version.text

\* stdlib_public_names(module, version=version): a module outside the
\* registry raises; load_stdlib_public_names() raises for a string that is
\* no version and for a version without a file
stdlib_public_names_call(version, module) ==
    deprecation_call("stdlib_public_names", version, module,
                     \/ module \notin IMPORTABLE_STDLIB_MODULES
                     \/ ~ IsVersionText(VersionOrRunning(version))
                     \/ VersionOrRunning(version) \notin RecordedVersions,
                     stdlib_public_names(module))

\* the version strings asked about: "2.7", "3.0", "3.2", "3.5", "3.6",
\* "3.8", "3.9", "3.10", and "", "3" and "3.9.1", which are no versions
VersionStrings ==
    { <<50, 46, 55>>, <<51, 46, 48>>, <<51, 46, 50>>, <<51, 46, 53>>,
      <<51, 46, 54>>, <<51, 46, 56>>, <<51, 46, 57>>, <<51, 46, 49, 48>>,
      <<>>, <<51>>, <<51, 46, 57, 46, 49>> }

Versions == {None} \cup {Str(text) : text \in VersionStrings}

\* the modules whose deprecated names are asked for
QueriedModules == {inspect, os, typing, INEXISTENT_MODULE}

DeprecationInit ==
    /\ Started
    /\ ns = EmptyDict
    /\ unavailable = {}

DeprecationNext ==
    \/ \E version \in Versions : deprecated_modules_call(version)
    \/ \E version \in Versions, module \in QueriedModules :
          deprecated_names_call(version, module)
    \/ \E module \in QueriedModules :
          aggregation_deprecated_names_call(module)
    \/ \E version \in Versions, module \in QueriedModules :
          stdlib_public_names_call(version, module)

DeprecationSpec == DeprecationInit /\ [][DeprecationNext]_vars

---------------------------------------------------------------------------

(* The module cache: loading, eviction and the purge of deimportall()      *)

\* the part of IMPORTABLE_STDLIB_MODULES the purge is followed through: a
\* module, a package with one of its submodules, and a module with the
\* second identifier under which its submodule-like attribute is cached
HierarchicalModules == {binhex, os, os_path, xml, xml_dom}

\* the keys that loading module_name puts into the cache: the module, its
\* ascendants, and the modules its top-level code imports
ImportedWith(module_name) ==
    IF module_name \in {os, os_path, posixpath} THEN {os, os_path, posixpath}
    ELSE {module_name} \cup Ascendants(module_name)

\* the modules whose top-level code runs when `wanted` are imported into
\* the cache `cached`
Initialized(cached, wanted) ==
    {ModuleName(key) : key \in UNION {ImportedWith(m) : m \in wanted \ cached}}
       \ cached

\* the cache after importlib.import_module() of each of `wanted`
Imported(cached, wanted) ==
    cached \cup UNION {ImportedWith(m) : m \in wanted \ cached}

\* a call about the cache runs to its end: `raises` tells whether it raised
\* KeyError, `cache` is the cache it leaves, `ran` the modules whose
\* top-level code it ran
cache_call(function, module_name, raises, cache, ran) ==
    /\ ncalls < MaxCalls
    /\ args' = [function |-> function, module |-> module_name]
    /\ symtab' = [raised |-> raises, cache_before |-> sys_modules,
                  loads_before |-> loads]
    /\ error' = IF raises THEN "KeyError" ELSE ""
    /\ sys_modules' = cache
    /\ loads' = [m \in DOMAIN loads |->
                   IF m \in ran THEN loads[m] + 1 ELSE loads[m]]
    /\ prev_args' = args
    /\ prev_symtab' = symtab
    /\ ncalls' = ncalls + 1

\* importlib.import_module(module_name)
import_module(module_name) ==
    /\ cache_call("import_module", module_name, FALSE,
                  Imported(sys_modules, {module_name}),
                  Initialized(sys_modules, {module_name}))
    /\ UNCHANGED <<unavailable, tables, namespace_vars>>

\* for module_name in IMPORTABLE_STDLIB_MODULES: clean_up_import_cache(...)
\* visiting the modules order[i], order[i+1], ...: the cache when the loop
\* ends, and the module at which it raised, if it did
RECURSIVE PurgeLoop(_, _, _)
PurgeLoop(modules, order, i) ==
    IF i > Len(order) THEN [cache |-> modules, raised |-> FALSE, at |-> <<>>]
    ELSE IF clean_up_import_cache_raises(modules, order[i])
         THEN [cache |-> modules, raised |-> TRUE, at |-> order[i]]
         ELSE PurgeLoop(clean_up_import_cache(modules, order[i]), order, i + 1)

\* deimportall(purge_cache=True) at module level, the registry being visited
\* in `order`: the first from_stdlib() constructs the checker, which imports
\* every module of the registry; the entries of the caller's module that
\* the checker knows are deleted; then the purge runs
deimportall_purge_cache(order) ==
    LET g        == f_globals
        kept     == [name \in {k \in DOMAIN g : ~ from_stdlib(g[k])} |-> g[name]]
        gathered == IF g = EmptyDict \/ stdlib_checker
                    THEN {} ELSE HierarchicalModules
        checked  == Imported(sys_modules, gathered)
        purged   == PurgeLoop(checked, order, 1)
    IN  /\ cache_call("deimportall", purged.at, purged.raised, purged.cache,
                      Initialized(sys_modules, gathered))
        /\ f_globals' = kept
        /\ stdlib_checker' = (stdlib_checker \/ g # EmptyDict)
        /\ calls' = Append(calls,
                           [op |-> "deimportall", raised |-> purged.raised,
                            purge_cache |-> TRUE])
        /\ UNCHANGED <<unavailable, tables, ns, realized, uses>>

\* the interpreter has started, which has loaded os, and with it posixpath
\* under both of its identifiers
CacheInit ==
    /\ args = NoArgs
    /\ symtab = EmptyDict
    /\ prev_args = NoArgs
    /\ prev_symtab = EmptyDict
    /\ ncalls = 0
    /\ sys_modules = {os, os_path, posixpath}
    /\ loads = [m \in HierarchicalModules \cup {posixpath} |-> IF m \in {os, posixpath} THEN 1 ELSE 0]
    /\ ns = EmptyDict
    /\ f_globals = ModuleGlobals
    /\ stdlib_checker = FALSE
    /\ realized = NoneRealized
    /\ calls = <<>>
    /\ uses = <<>>
    /\ unavailable = {}
    /\ tables = SharedTables
    /\ error = ""

CacheNext ==
    \/ \E module_name \in HierarchicalModules \cup {posixpath} :
          import_module(module_name)
    \/ \E module_name \in HierarchicalModules \cup {posixpath} :
          \* clean_up_import_cache(module_name), with what it raises
          /\ cache_call("clean_up_import_cache", module_name,
                        clean_up_import_cache_raises(sys_modules, module_name),
                        clean_up_import_cache(sys_modules, module_name), {})
          /\ UNCHANGED <<unavailable, tables, namespace_vars>>
    \* the loop visits the registry, a frozenset, in any order
    \/ \E order \in [1 .. Cardinality(HierarchicalModules) -> HierarchicalModules] :
          /\ \A i, j \in DOMAIN order : i # j => order[i] # order[j]
          /\ deimportall_purge_cache(order)

CacheSpec == CacheInit /\ [][CacheNext]_vars

---------------------------------------------------------------------------

(* Deduction of a module's public interface                                *)

\* modules of the registry outside the sample that is aggregated, whose
\* interface the deduction is followed through, and modules their names
\* come from
functools   == <<102, 117, 110, 99, 116, 111, 111, 108, 115>>
uuid        == <<117, 117, 105, 100>>
collections == <<99, 111, 108, 108, 101, 99, 116, 105, 111, 110, 115>>
enum        == <<101, 110, 117, 109>>
posix       == <<112, 111, 115, 105, 120>>
sys         == <<115, 121, 115>>

\* the modules of IMPORTABLE_STDLIB_MODULES that are deduced
DeducedModules == IMPORTABLE_STDLIB_MODULES \cup {functools, uuid}

\* STDLIB_MODULES: the modules the list of the standard library names
STDLIB_MODULES ==
    DeducedModules \cup HierarchicalModules
       \cup {posixpath, collections, enum, posix, sys}

\* a module object bound in another module's namespace
Module(name) == [ismodule |-> TRUE, of |-> name]
\* an object whose __module__ attribute is `origin`
From(origin) == [ismodule |-> FALSE, of |-> origin]
\* an object that has no __module__ attribute, as a string or a number
Plain == [ismodule |-> FALSE, of |-> <<>>]

\* module.__all__ where the module declares one
ExportList ==
    (binhex     :> {"Error", "hexbin"}) @@
    (functools  :> {"partial", "reduce", "wraps"}) @@
    (lzma       :> {"compress", "open"}) @@
    (os         :> {"environ", "getcwd", "path", "sep"}) @@
    (typing     :> {"Any", "List"}) @@
    (webbrowser :> {"Error", "open"})

\* vars(module): the top-level names of the module with their values
TopLevel ==
    (binhex     :> (("Error" :> From(binhex)) @@ ("hexbin" :> From(binhex))
                    @@ ("os" :> Module(os)) @@ ("_DID_HEADER" :> Plain))) @@
    (builtins   :> [name \in BUILTINS_NAMES \cup {"__name__"} |->
                      IF name = "__name__" THEN Plain ELSE From(builtins)]) @@
    (functools  :> (("partial" :> From(functools))
                    @@ ("reduce" :> From(functools))
                    @@ ("wraps" :> From(functools))
                    @@ ("namedtuple" :> From(collections))
                    @@ ("_make_key" :> From(functools)))) @@
    (lzma       :> (("compress" :> From(lzma)) @@ ("open" :> From(lzma))
                    @@ ("os" :> Module(os)))) @@
    (os         :> (("environ" :> From(os)) @@ ("getcwd" :> From(posix))
                    @@ ("path" :> Module(posixpath)) @@ ("sep" :> Plain)
                    @@ ("sys" :> Module(sys)) @@ ("_exit" :> From(posix)))) @@
    (typing     :> (("Any" :> From(typing)) @@ ("List" :> From(typing))
                    @@ ("sys" :> Module(sys)))) @@
    (uuid       :> (("UUID" :> From(uuid)) @@ ("uuid4" :> From(uuid))
                    @@ ("RESERVED_NCS" :> Plain) @@ ("Enum" :> From(enum))
                    @@ ("os" :> Module(os)) @@ ("sys" :> Module(sys))
                    @@ ("_AIX" :> Plain))) @@
    (webbrowser :> (("Error" :> From(webbrowser))
                    @@ ("open" :> From(webbrowser))
                    @@ ("os" :> Module(os)) @@ ("_lock" :> Plain))) @@
    (zlib       :> (("compress" :> From(zlib)) @@ ("__doc__" :> Plain)))

\* name.startswith("_")
IsPrivate(name) == Len(name) >= 1 /\ SubSeq(name, 1, 1) = "_"

\* exec("from module_name import *", {}, symtab): the names of __all__, or
\* else the names that do not start with an underscore
wildcard_import_module(module_name) ==
    LET namespace == TopLevel[module_name]
        names == IF module_name \in DOMAIN ExportList
                 THEN ExportList[module_name]
                 ELSE {name \in DOMAIN namespace : ~ IsPrivate(name)}
    IN  [name \in names |-> namespace[name]]

is_another_stdlib(module_name, symbol) ==
    /\ symbol.ismodule
    /\ symbol.of \in STDLIB_MODULES
    /\ ~ StartsWith(symbol.of, module_name \o <<46>>)

from_another_stdlib(module_name, symbol) ==
    /\ symbol.of \in STDLIB_MODULES
    /\ symbol.of # module_name
    /\ ~ StartsWith(symbol.of, module_name \o <<46>>)

\* what a call leaves: a result, or an exception of the class `error`
Returns(result) == [raised |-> FALSE, error |-> "", result |-> result]
Raises(etype) == [raised |-> TRUE, error |-> etype, result |-> {}]

\* the body of deduce_stdlib_public_interface, in an interpreter in which
\* the modules `missing` cannot be imported
deduce_body_AllNames(module_name, missing) ==
    IF module_name \notin DeducedModules THEN Raises("ValueError")
    ELSE IF module_name = builtins THEN Returns(BUILTINS_NAMES)
    ELSE IF module_name \notin missing /\ module_name \in DOMAIN ExportList
         THEN Returns(DOMAIN TopLevel[module_name])
    ELSE IF module_name \in missing THEN Raises("CalledProcessError")
    ELSE LET imported == wildcard_import_module(module_name)
         IN  Returns({name \in DOMAIN imported :
                        ~ (\/ is_another_stdlib(module_name, imported[name])
                           \/ from_another_stdlib(module_name, imported[name]))})

deduce_body(module_name, missing) ==
    IF module_name \notin DeducedModules THEN Raises("ValueError")
    ELSE IF module_name = builtins THEN Returns(BUILTINS_NAMES)
    ELSE IF module_name \notin missing /\ module_name \in DOMAIN ExportList
         THEN \* set(import_name_from_module("__all__", module_name))
              Returns(ExportList[module_name])
    ELSE IF module_name \in missing
         THEN \* ModuleNotFoundError is an ImportError, which is passed
              \* over; the probe in a second interpreter then fails
              Raises("CalledProcessError")
    ELSE LET imported == wildcard_import_module(module_name)
         IN  Returns({name \in DOMAIN imported :
                        ~ (\/ is_another_stdlib(module_name, imported[name])
                           \/ from_another_stdlib(module_name, imported[name]))})

\* @raises(etype, ...): an Exception of the decorated function is replaced
\* by one of the class etype
raises(etype, outcome) ==
    IF outcome.raised THEN Raises(etype) ELSE outcome

\* deduce_stdlib_public_interface(module_name)
deduce_stdlib_public_interface(module_name, missing) ==
    raises("RuntimeError", deduce_body(module_name, missing))

\* generate_stdlib_public_names(): the modules are deduced one after the
\* other; `except DeducePublicInterfaceError` reports and raises again, an
\* exception of another class leaves the function unreported
generate_stdlib_public_names(missing) ==
    LET failed == {m \in DeducedModules :
                     deduce_stdlib_public_interface(m, missing).raised}
        m == CHOOSE m \in failed : TRUE
        outcome == deduce_stdlib_public_interface(m, missing)
    IN  IF failed = {}
        THEN [raised |-> FALSE, error |-> "", reported |-> FALSE,
              result |-> [module \in DeducedModules |->
                            deduce_stdlib_public_interface(module, missing).result]]
        ELSE [raised |-> TRUE, error |-> outcome.error,
              reported |-> (outcome.error = "DeducePublicInterfaceError"),
              result |-> {}]

\* a call of `function` about `module_name` runs to its end
deduce_call(function, module_name, outcome) ==
    /\ ncalls < MaxCalls
    /\ args' = [function |-> function, module |-> module_name]
    /\ symtab' = outcome
    /\ error' = outcome.error
    /\ prev_args' = args
    /\ prev_symtab' = symtab
    /\ ncalls' = ncalls + 1
    /\ UNCHANGED <<sys_modules, loads, unavailable, tables, namespace_vars>>

DeduceInit ==
    /\ Started
    /\ ns = EmptyDict
    \* the interpreter the deduction runs in: every module can be
    \* imported, or uuid, or lzma, cannot
    /\ unavailable \in {{}, {uuid}, {lzma}}

DeduceNext ==
    \/ \E module_name \in DeducedModules \cup {INEXISTENT_MODULE} :
          deduce_call("deduce_stdlib_public_interface", module_name,
                      deduce_stdlib_public_interface(module_name, unavailable))
    \/ deduce_call("generate_stdlib_public_names", <<>>,
                   generate_stdlib_public_names(unavailable))

DeduceSpec == DeduceInit /\ [][DeduceNext]_vars

---------------------------------------------------------------------------

(* The membership test from_stdlib                                         *)

\* from_stdlib(symbol): the first call constructs the checker, which
\* imports every module of the registry
from_stdlib_call(symbol) ==
    /\ ncalls < MaxCalls
    /\ args' = [function |-> "from_stdlib", symbol |-> symbol]
    /\ symtab' = [raised |-> FALSE, result |-> from_stdlib(symbol)]
    /\ error' = ""
    /\ prev_args' = args
    /\ prev_symtab' = symtab
    /\ ncalls' = ncalls + 1
    /\ stdlib_checker' = TRUE
    /\ sys_modules' = IF stdlib_checker THEN sys_modules
                      ELSE sys_modules \cup IMPORTABLE_STDLIB_MODULES
    /\ loads' = IF stdlib_checker THEN loads
                ELSE Loaded(loads, sys_modules, IMPORTABLE_STDLIB_MODULES)
    /\ UNCHANGED <<unavailable, tables, ns, f_globals, realized, calls, uses>>

CheckerInit ==
    /\ Started
    /\ ns = EmptyDict
    /\ unavailable = {}

\* the values the test is asked about: the module objects, the values the
\* modules export, proxies of such values, and values of the caller's code
CheckerNext ==
    \E symbol \in
          {ModuleObj(m) : m \in IMPORTABLE_STDLIB_MODULES \cup {main}}
          \cup UNION {{Attr(m, name) : name \in STDLIB_PUBLIC_NAMES[m]} :
                         m \in IMPORTABLE_STDLIB_MODULES}
          \cup {Proxy(os, name) : name \in STDLIB_PUBLIC_NAMES[os]}
          \cup {UserObj(name) : name \in {"mine", "sep_copy", "ulist"}} :
       from_stdlib_call(symbol)

CheckerSpec == CheckerInit /\ [][CheckerNext]_vars

---------------------------------------------------------------------------

(* The shared tables: queries, and callers that change what they were given *)

\* a query of a shared table runs to its end and returns the object
\* `object`, which holds `value`
query_call(function, module, value, object) ==
    /\ ncalls < MaxCalls
    /\ args' = [function |-> function, module |-> module]
    /\ symtab' = [returned |-> value, result |-> value, object |-> object]
    /\ error' = ""
    /\ prev_args' = args
    /\ prev_symtab' = symtab
    /\ ncalls' = ncalls + 1
    /\ UNCHANGED <<sys_modules, loads, unavailable, tables, namespace_vars>>

\* the caller's code removes x from the set or the table the latest call
\* returned: result.discard(x), or del table[x]; x is a module where the
\* call returned a set of modules, else a name
mutate_result(x, of_modules) ==
    /\ ncalls >= 1
    /\ of_modules = ("function" \in DOMAIN args
                       /\ args.function = "deprecated_modules")
    /\ IF "function" \in DOMAIN args
       THEN \* the latest call was a query
            /\ x \in symtab.result
            /\ symtab' = [symtab EXCEPT !.result = @ \ {x}]
            /\ tables' = InPlace(tables, symtab.object, symtab.result \ {x})
       ELSE \* the table the latest get_all_symbols() built, a new dict
            /\ x \in DOMAIN symtab
            /\ symtab' = DictPop(symtab, {x})
            /\ tables' = tables
    /\ UNCHANGED <<args, prev_args, prev_symtab, ncalls, sys_modules, loads,
                   unavailable, error, namespace_vars>>

SharedInit ==
    /\ Started
    /\ ns = ("mine" :> UserObj("mine"))
    /\ unavailable = {}

SharedNext ==
    \* stdlib_public_names(module), read from the cached table
    \/ \E module \in {os, typing} :
          query_call("stdlib_public_names", module,
                     tables.STDLIB_PUBLIC_NAMES[module],
                     stdlib_public_names_object(module))
    \* deprecated_modules(): `modules = set()`, filled with |=
    \/ query_call("deprecated_modules", <<>>,
                  deprecated_modules(version_info), Fresh)
    \* deprecated_names(module=module): `names = set()`, filled with |=
    \/ \E module \in {os, typing} :
          query_call("deprecated_names", module,
                     deprecated_names(version_info, module), Fresh)
    \/ \E include_deprecated \in BOOLEAN :
          get_all_symbols_call([NoArgs EXCEPT
                                  !.include_deprecated = include_deprecated])
    \* importall(ns) with the default arguments
    \/ /\ ncalls < MaxCalls
       /\ importall([globals |-> "ns", at_module_level |-> TRUE,
                     protect_builtins |-> TRUE, kwargs |-> NoArgs])
    \/ \E x \in {"List", "sep"} : mutate_result(x, FALSE)
    \/ \E x \in {asynchat, binhex} : mutate_result(x, TRUE)

SharedSpec == SharedInit /\ [][SharedNext]_vars

---------------------------------------------------------------------------

(* Vocabulary of the properties, stated independently of the code above    *)

\* the priority score the caller's arguments give module m
Score(a, m) ==
    IF a.prioritized.form = "mapping"
    THEN (IF m \in DOMAIN a.prioritized.map THEN a.prioritized.map[m] ELSE 0)
    ELSE (IF m \in a.prioritized.items THEN 1 ELSE 0)

\* s sorts lexicographically before t
LexBefore(s, t) ==
    \E i \in 1 .. (Len(t)) :
        /\ \A j \in 1 .. (i - 1) : j <= Len(s) /\ s[j] = t[j]
        /\ (i > Len(s) \/ (i <= Len(s) /\ s[i] < t[i]))

\* the identifier order on the registry, as a table
SortsBefore ==
    [A \in IMPORTABLE_STDLIB_MODULES |->
        {B \in IMPORTABLE_STDLIB_MODULES : LexBefore(A, B)}]

\* B is above A in the order (priority, identifier)
Outranks(a, B, A) ==
    \/ Score(a, B) > Score(a, A)
    \/ (Score(a, B) = Score(a, A) /\ B \in SortsBefore[A])

\* modules and names deprecated as of the running version
DeprecatedNow ==
    {m \in IMPORTABLE_STDLIB_MODULES :
        \E v \in DOMAIN DEPRECATED_MODULES :
            /\ (v[1] < version_info[1]
                  \/ (v[1] = version_info[1] /\ v[2] <= version_info[2]))
            /\ m \in DEPRECATED_MODULES[v]}

DeprecatedNameNow(m, x) ==
    \E v \in DOMAIN DEPRECATED_NAMES :
        /\ (v[1] < version_info[1]
              \/ (v[1] = version_info[1] /\ v[2] <= version_info[2]))
        /\ m \in DOMAIN DEPRECATED_NAMES[v]
        /\ x \in DEPRECATED_NAMES[v][m]

\* the modules the call with arguments a merges
Included(a) ==
    {m \in IMPORTABLE_STDLIB_MODULES :
        /\ m \notin a.ignore
        /\ (a.include_deprecated \/ m \notin DeprecatedNow)}

\* the filtered public interface of m under a
Interface(a, m) ==
    {x \in STDLIB_PUBLIC_NAMES[m] :
        a.include_deprecated \/ ~ DeprecatedNameNow(m, x)}

\* the included modules that export x
Exporters(a, x) == {m \in Included(a) : x \in Interface(a, m)}

\* the module a table entry was taken from, and whether it is m's value of x
Origin(v) == v.ref[1]
IsValueOf(a, v, m, x) ==
    v = [kind |-> IF a.lazy THEN "proxy" ELSE "obj", ref |-> <<m, x>>]

---------------------------------------------------------------------------
(* C1: priority ordering. After get_all_symbols(), for included modules A  *)
(* and B that both export x with priority(B) > priority(A), x is never     *)
(* bound to A's value, and where A and B are the two modules that export  *)
(* x it is bound to B's value, also when B sorts before A; a re-run with  *)
(* the two scores exchanged binds x to A's value.                          *)
C1_PriorityOrdering ==
    /\ ncalls >= 1 =>
         \A x \in Names :
            LET E == Exporters(args, x)
            IN  \A A \in E, B \in E :
                   Score(args, B) > Score(args, A) =>
                      /\ ~ IsValueOf(args, symtab[x], A, x)
                      /\ E = {A, B} => IsValueOf(args, symtab[x], B, x)
    /\ (ncalls >= 2 /\ prev_args.prioritized.form = "mapping") =>
         \A x \in Names : \A A \in Exporters(args, x), B \in Exporters(args, x) :
            /\ Exporters(args, x) = {A, B}
            /\ {A, B} \subseteq DOMAIN prev_args.prioritized.map
            /\ args = [prev_args EXCEPT
                         !.prioritized = SwapScores(prev_args.prioritized, A, B)]
            /\ Score(prev_args, B) > Score(prev_args, A)
            => /\ IsValueOf(prev_args, prev_symtab[x], B, x)
               /\ IsValueOf(args, symtab[x], A, x)

\* lzma was scored above zlib and gave `compress`; the re-run with the
\* scores exchanged gives zlib's
C1_Witness ==
    /\ ncalls = 2
    /\ Exporters(args, "compress") = {lzma, zlib}
    /\ Score(prev_args, lzma) > Score(prev_args, zlib)
    /\ Score(args, zlib) > Score(args, lzma)
    /\ LexBefore(lzma, zlib)
    /\ IsValueOf(prev_args, prev_symtab["compress"], lzma, "compress")
    /\ IsValueOf(args, symtab["compress"], zlib, "compress")

---------------------------------------------------------------------------
(* C2: tie-break. For included modules A and B of equal priority score     *)
(* that are the two modules exporting x, x is bound to the value of the   *)
(* one whose identifier sorts lexicographically greater; any two distinct *)
(* modules are ordered one way exactly, and every exported name is bound  *)
(* to the value of one of its exporters.                                   *)
C2_TieBreak ==
    ncalls >= 1 =>
      /\ \A x \in Names :
            LET E == Exporters(args, x)
            IN  \A A \in E, B \in E :
                   (Score(args, A) = Score(args, B) /\ LexBefore(A, B))
                   => /\ ~ IsValueOf(args, symtab[x], A, x)
                      /\ E = {A, B} => IsValueOf(args, symtab[x], B, x)
      /\ \A A \in Included(args), B \in Included(args) :
            A # B => (Outranks(args, A, B) <=> ~ Outranks(args, B, A))
      /\ \A x \in Names :
            Exporters(args, x) # {} =>
               \E m \in Exporters(args, x) : IsValueOf(args, symtab[x], m, x)

\* default priorities: `compress` comes from zlib, not lzma
C2_Witness ==
    /\ ncalls >= 1
    /\ Exporters(args, "compress") = {lzma, zlib}
    /\ Score(args, lzma) = 0 /\ Score(args, zlib) = 0
    /\ IsValueOf(args, symtab["compress"], zlib, "compress")

---------------------------------------------------------------------------
(* C3: additive merge. The keys of the returned table are exactly the      *)
(* union of the filtered public interfaces of the included modules, and   *)
(* each name is bound to the value of the included exporter that is       *)
(* maximal under (priority, identifier).                                   *)
C3_AdditiveMerge ==
    ncalls >= 1 =>
      /\ DOMAIN symtab = UNION {Interface(args, m) : m \in Included(args)}
      /\ \A x \in DOMAIN symtab :
            \E m \in Exporters(args, x) :
               /\ \A o \in Exporters(args, x) \ {m} : Outranks(args, m, o)
               /\ IsValueOf(args, symtab[x], m, x)

\* three included modules export `open` and the one in the middle of the
\* identifier order wins by its score
C3_Witness ==
    /\ ncalls >= 1
    /\ Exporters(args, "open") = {builtins, lzma, webbrowser}
    /\ IsValueOf(args, symtab["open"], lzma, "open")
    /\ "hexbin" \notin DOMAIN symtab
    /\ "Any" \in DOMAIN symtab

---------------------------------------------------------------------------
(* C4: determinism. Two successive get_all_symbols() calls with the same   *)
(* arguments return equal tables, whatever order the module set is        *)
(* iterated in.                                                            *)
C4_Determinism ==
    (ncalls >= 2 /\ args = prev_args) => symtab = prev_symtab

\* a second call repeated the arguments of the first, with modules tied on
\* their score colliding on a name
C4_Witness ==
    /\ ncalls = 2
    /\ args = prev_args
    /\ Exporters(args, "open") = {builtins, lzma, webbrowser}
    /\ Score(args, lzma) = Score(args, webbrowser)
    /\ symtab = prev_symtab
    /\ DOMAIN symtab # {}

---------------------------------------------------------------------------
(* C5: priority forms. An iterable S gives the same table as the mapping   *)
(* {m: 1 for m in S}; a module that is not mentioned scores 0, so a       *)
(* mapping gives the same table with the score 0 written out for the      *)
(* modules it does not mention;                                            *)
(* a module with a negative score never wins a name against an included   *)
(* exporter that is not mentioned.                                         *)
C5_PriorityForms ==
    /\ (/\ ncalls >= 2
        /\ prev_args.prioritized.form = "iterable"
        /\ args = [prev_args EXCEPT !.prioritized = AsMapping(prev_args.prioritized)])
       => symtab = prev_symtab
    /\ (/\ ncalls >= 2
        /\ prev_args.prioritized.form = "mapping"
        /\ args = [prev_args EXCEPT !.prioritized = FillZeros(prev_args.prioritized)])
       => symtab = prev_symtab
    /\ ncalls >= 1 =>
         \A x \in Names : \A A \in Exporters(args, x), B \in Exporters(args, x) :
            /\ args.prioritized.form = "mapping"
            /\ A \in DOMAIN args.prioritized.map
            /\ args.prioritized.map[A] < 0
            /\ B \notin DOMAIN args.prioritized.map
            => ~ IsValueOf(args, symtab[x], A, x)

\* prioritized=["lzma"] and then prioritized={"lzma": 1}: `compress` is
\* lzma's both times
C5_Witness ==
    /\ ncalls = 2
    /\ prev_args.prioritized.form = "iterable"
    /\ prev_args.prioritized.items = {lzma}
    /\ args = [prev_args EXCEPT !.prioritized = AsMapping(prev_args.prioritized)]
    /\ Exporters(args, "compress") = {lzma, zlib}
    /\ IsValueOf(prev_args, prev_symtab["compress"], lzma, "compress")
    /\ IsValueOf(args, symtab["compress"], lzma, "compress")

---------------------------------------------------------------------------
(* C6: ignore. No module named in `ignore` contributes an entry; the table *)
(* is the merge over the registry without those modules; a name whose     *)
(* winner without `ignore` is ignored goes to the highest remaining       *)
(* exporter under (priority, identifier).                                  *)
Unignored(a) == [a EXCEPT !.ignore = {}]

Highest(a, E) == CHOOSE m \in E : \A o \in E \ {m} : Outranks(a, m, o)

C6_Ignore ==
    ncalls >= 1 =>
      /\ \A x \in DOMAIN symtab : Origin(symtab[x]) \notin args.ignore
      /\ DOMAIN symtab =
           UNION {Interface(args, m) : m \in Included(Unignored(args)) \ args.ignore}
      /\ \A x \in Names :
            LET all  == Exporters(Unignored(args), x)
                rest == all \ args.ignore
            IN  (all # {} /\ Highest(args, all) \in args.ignore /\ rest # {})
                => IsValueOf(args, symtab[x], Highest(args, rest), x)

\* ignore=["zlib"] makes `compress` come from lzma
C6_Witness ==
    /\ ncalls >= 1
    /\ args.ignore = {zlib}
    /\ Score(args, lzma) = 0 /\ Score(args, zlib) = 0
    /\ IsValueOf(args, symtab["compress"], lzma, "compress")

---------------------------------------------------------------------------
(* C7: deprecation exclusion. With include_deprecated=False no entry of    *)
(* the table comes from a module deprecated as of the running version, no *)
(* entry is a name deprecated in the module it comes from, and a name     *)
(* that only deprecated modules or deprecated-name records export is      *)
(* absent; with include_deprecated=True every public name of every module *)
(* that is not ignored is in the table.                                    *)
OnlyDeprecated(x) ==
    \A m \in IMPORTABLE_STDLIB_MODULES :
        x \in STDLIB_PUBLIC_NAMES[m] =>
            (m \in DeprecatedNow \/ DeprecatedNameNow(m, x))

C7_DeprecationExclusion ==
    ncalls >= 1 =>
      /\ ~ args.include_deprecated =>
            /\ \A x \in DOMAIN symtab :
                  /\ Origin(symtab[x]) \notin DeprecatedNow
                  /\ ~ DeprecatedNameNow(Origin(symtab[x]), x)
            /\ \A x \in Names : OnlyDeprecated(x) => x \notin DOMAIN symtab
      /\ args.include_deprecated =>
            \A m \in IMPORTABLE_STDLIB_MODULES \ args.ignore :
               \A x \in STDLIB_PUBLIC_NAMES[m] : x \in DOMAIN symtab

\* by default `List` and `hexbin` are absent, `Any` is typing's and `Error`
\* is webbrowser's although binhex was given the higher score
C7_Witness ==
    /\ ncalls >= 1
    /\ ~ args.include_deprecated
    /\ args.ignore = {}
    /\ Score(args, binhex) > Score(args, webbrowser)
    /\ "List" \notin DOMAIN symtab /\ "hexbin" \notin DOMAIN symtab
    /\ IsValueOf(args, symtab["Any"], typing, "Any")
    /\ IsValueOf(args, symtab["Error"], webbrowser, "Error")

---------------------------------------------------------------------------
(* Vocabulary of the namespace properties                                  *)

\* the latest call and the one before it
LastCall == calls[Len(calls)]
CallBefore == calls[Len(calls) - 1]

\* the binding of name k in the mapping d: <<value>>, or <<>> when unbound
Binding(d, k) == IF k \in DOMAIN d THEN <<d[k]>> ELSE <<>>

\* the mapping a call designates by its `globals` argument, before and now
DesignatedBefore(c) == IF c.globals = "ns" THEN c.ns_before ELSE c.f_globals_before
DesignatedNow(c) == IF c.globals = "ns" THEN ns ELSE f_globals

\* the names of the merged table of the call with arguments a
MergedNames(a) == {x \in Names : Exporters(a, x) # {}}

\* the value the merge winner under (priority, identifier) binds to x
WinnerValue(a, x) ==
    [kind |-> IF a.lazy THEN "proxy" ELSE "obj",
     ref |-> <<Highest(a, Exporters(a, x)), x>>]

\* v is a module of the registry, or is (for an unhashable value) or equals
\* (for a hashable one) a value a module of the registry exports
StdlibValue(v) ==
    \/ v.kind = "module" /\ v.ref[1] \in IMPORTABLE_STDLIB_MODULES
    \/ \E m \in IMPORTABLE_STDLIB_MODULES : \E x \in STDLIB_PUBLIC_NAMES[m] :
          LET exported == [kind |-> "obj", ref |-> <<m, x>>]
          IN  IF Hashable(v) THEN EqKey(v) = EqKey(exported) ELSE v = exported

---------------------------------------------------------------------------
(* C8: reserved-name protection. After importall(..., protect_builtins=    *)
(* True), whichever call of a sequence it is, every name of BUILTINS_NAMES *)
(* has in the caller's mapping and in the caller's global scope the       *)
(* binding it had before the call: not written where it was unbound, not  *)
(* overwritten where it was bound, also for a name that an included       *)
(* module exports.                                                         *)
C8_ReservedNameProtection ==
    (Len(calls) >= 1 /\ LastCall.op = "importall" /\ LastCall.protect_builtins)
    => \A name \in BUILTINS_NAMES :
          /\ Binding(ns, name) = Binding(LastCall.ns_before, name)
          /\ Binding(f_globals, name) = Binding(LastCall.f_globals_before, name)

\* two protected calls into a mapping that binds `open` to the caller's own
\* object: webbrowser's `open` was in the merged table, `compress` was
\* overwritten, `open` is still the caller's and `len` is still unbound
C8_Witness ==
    /\ Len(calls) = 2
    /\ \A i \in 1 .. 2 :
          /\ calls[i].op = "importall" /\ ~ calls[i].raised
          /\ calls[i].protect_builtins /\ calls[i].globals = "ns"
    /\ Binding(calls[1].ns_before, "open") = <<UserObj("open")>>
    /\ Exporters(args, "open") # {}
    /\ Binding(ns, "compress") = <<WinnerValue(args, "compress")>>
    /\ Binding(ns, "open") = <<UserObj("open")>>
    /\ Binding(ns, "len") = <<>>

---------------------------------------------------------------------------
(* C9: protection switched off. After importall(ns, protect_builtins=      *)
(* False) has returned, every name of the merged table, the names of      *)
(* BUILTINS_NAMES included, is bound in ns to the value of the merge      *)
(* winner under (priority, identifier).                                    *)
C9_ProtectionOff ==
    (/\ Len(calls) >= 1
     /\ LastCall.op = "importall" /\ ~ LastCall.raised
     /\ ~ LastCall.protect_builtins
     /\ LastCall.globals = "ns")
    => \A x \in MergedNames(args) :
          Binding(ns, x) = <<WinnerValue(args, x)>>

---------------------------------------------------------------------------
---------------------------------------------------------------------------
(* C11: de-import removes what was imported. After importall(N) with the   *)
(* default settings and then deimportall(N), no key that importall        *)
(* introduced into N is still bound in N, whatever kind of value it was   *)
(* given.                                                                  *)

\* the keys the call before the latest one introduced into the mapping
\* it designates
Introduced ==
    DOMAIN DesignatedBefore(LastCall) \ DOMAIN DesignatedBefore(CallBefore)

C11_DeimportRemovesImported ==
    (/\ Len(calls) >= 2
     /\ CallBefore.op = "importall" /\ ~ CallBefore.raised
     /\ CallBefore.protect_builtins /\ args = NoArgs
     /\ LastCall.op = "deimportall" /\ ~ LastCall.raised
     /\ LastCall.globals = CallBefore.globals)
    => \A k \in Introduced : k \notin DOMAIN DesignatedNow(LastCall)

---------------------------------------------------------------------------
(* C12: reversal is exact. deimportall removes an entry (k, v) only if an  *)
(* earlier importall recorded the value v for that same name k in the     *)
(* mapping; an entry bound under a name the aggregation did not           *)
(* contribute, or rebound since to another value, is not removed.          *)

\* the mapping that call number i wrote to: the one it designates unless
\* that one was empty
WrittenBy(i) ==
    IF calls[i].globals = "ns" /\ calls[i].ns_before # EmptyDict
    THEN "ns" ELSE "f_globals"

\* some importall before the latest call recorded v for name k in the
\* mapping `dest`
Recorded(dest, k, v) ==
    \E i \in 1 .. (Len(calls) - 1) :
        /\ calls[i].op = "importall" /\ ~ calls[i].raised
        /\ WrittenBy(i) = dest
        /\ k \in DOMAIN calls[i].table
        /\ calls[i].table[k] = v

C12_ExactReversal ==
    (Len(calls) >= 1 /\ LastCall.op = "deimportall")
    => /\ \A k \in DOMAIN LastCall.ns_before :
             k \notin DOMAIN ns => Recorded("ns", k, LastCall.ns_before[k])
       /\ \A k \in DOMAIN LastCall.f_globals_before :
             k \notin DOMAIN f_globals
                => Recorded("f_globals", k, LastCall.f_globals_before[k])

---------------------------------------------------------------------------
(* C13: remove-only reversal. After importall(N) and then deimportall(N),  *)
(* every key that was bound in N before importall and that importall      *)
(* overwrote is absent from N, and deimportall has rebound no key: every  *)
(* entry left is an entry that was there before deimportall.               *)

\* the names of the filtered merged table of the call before the latest
FilteredNames ==
    IF CallBefore.protect_builtins
    THEN MergedNames(args) \ BUILTINS_NAMES
    ELSE MergedNames(args)

C13_RemoveOnly ==
    (/\ Len(calls) >= 2
     /\ CallBefore.op = "importall" /\ ~ CallBefore.raised
     /\ LastCall.op = "deimportall" /\ ~ LastCall.raised
     /\ LastCall.globals = CallBefore.globals)
    => /\ \A k \in DOMAIN DesignatedBefore(CallBefore) \cap FilteredNames :
             k \notin DOMAIN DesignatedNow(LastCall)
       /\ \A k \in DOMAIN DesignatedNow(LastCall) :
             Binding(DesignatedBefore(LastCall), k)
                = <<DesignatedNow(LastCall)[k]>>

---------------------------------------------------------------------------
(* C14: laziness non-observation. While every get_all_symbols() and        *)
(* importall() call is made with lazy=True, the calls load no module: a   *)
(* module is in the module cache, or has had its top-level code run,      *)
(* only if it was loaded when the interpreter started or some name bound  *)
(* to it has been used; with no name used nothing has been loaded, and    *)
(* using a name of one module loads no module of which no name was used.  *)

\* the modules loaded before any call
LoadedAtStart == {builtins, os}

\* the modules of which some name has been used
UsedModules == {uses[i].module : i \in 1 .. Len(uses)}

---------------------------------------------------------------------------
(* C15: memoized realization. Of the uses of one proxy, only the first     *)
(* calls the thunk, and every later use observes the value the first one  *)
(* observed, also when the module has been evicted from the cache since,  *)
(* so that calling the thunk again would load it anew.                     *)

\* uses i and j are uses of the same proxy
SameProxy(i, j) ==
    /\ uses[i].dest = uses[j].dest
    /\ uses[i].name = uses[j].name
    /\ uses[i].maker = uses[j].maker

---------------------------------------------------------------------------
(* C16: lazy/eager equivalence. For every module and every setting of      *)
(* include_deprecated, the table import_public_names() builds with        *)
(* lazy=True has the keys of the table it builds with lazy=False, and an  *)
(* entry of the lazy table, once used, is equal to the entry of the same  *)
(* name in the eager table.                                                *)

\* the latest two calls built the tables of one module under one setting
\* of include_deprecated, one of them lazily and the other eagerly
LazyEagerPair ==
    /\ ncalls >= 2
    /\ args.module_name = prev_args.module_name
    /\ args.include_deprecated = prev_args.include_deprecated
    /\ args.lazy # prev_args.lazy

\* the object a use of the entry `name` of the lazy table in `ns` operated on
UsedEntry(name) ==
    [kind |-> "obj", ref |-> ns[name].ref, load |-> realized.ns[name]]

\* the object the eager table binds to `name`, read from the module as it
\* is loaded
EagerEntry(table, name) ==
    [kind |-> "obj", ref |-> table[name].ref,
     load |-> loads[table[name].ref[1]]]

C16_LazyEagerEquivalence ==
    LazyEagerPair =>
       /\ DOMAIN symtab = DOMAIN prev_symtab
       /\ args.lazy =>
             \A name \in DOMAIN realized.ns :
                /\ name \in DOMAIN prev_symtab
                /\ prev_symtab[name].kind = "obj"
                /\ UsedEntry(name) = EagerEntry(prev_symtab, name)

\* the table of typing was built eagerly and then lazily with the
\* deprecated names included, and both entries of the lazy table were used
C16_Witness ==
    /\ LazyEagerPair
    /\ args.lazy /\ args.include_deprecated
    /\ args.module_name = typing
    /\ DOMAIN symtab = {"Any", "List"}
    /\ DOMAIN realized.ns = {"Any", "List"}
    /\ symtab["List"].kind = "proxy"
    /\ prev_symtab["List"] = Attr(typing, "List")

---------------------------------------------------------------------------
(* C17: an unavailable module is contained. Where a module that the merge *)
(* includes cannot be loaded, get_all_symbols(), eager or lazy, raises no *)
(* error, returns no entry taken from that module, and returns the merge  *)
(* of the modules that can be loaded.                                      *)

\* the included modules that can be loaded
Loadable(a) == Included(a) \ unavailable

C17_UnavailableContained ==
    (ncalls >= 1 /\ Included(args) \cap unavailable # {}) =>
       /\ error = ""
       /\ \A x \in DOMAIN symtab : Origin(symtab[x]) \notin unavailable
       /\ DOMAIN symtab = UNION {Interface(args, m) : m \in Loadable(args)}
       /\ \A x \in DOMAIN symtab :
             LET E == Exporters(args, x) \ unavailable
             IN  IsValueOf(args, symtab[x], Highest(args, E), x)

---------------------------------------------------------------------------
(* C18: misuse error. importall() and deimportall() raise RuntimeError     *)
(* exactly when they are called without a namespace argument from a       *)
(* calling context that is not the module level; a call that raises       *)
(* leaves both namespaces and the module cache as they were; and          *)
(* importall(ns) called from inside a function or method returns and      *)
(* binds the names of the merged table in ns.                              *)

\* the call used the default-namespace form from inside a function
Misuse(c) == c.globals = "None" /\ ~ c.at_module_level

C18_MisuseError ==
    Len(calls) >= 1 =>
       /\ LastCall.raised <=> Misuse(LastCall)
       /\ LastCall.raised =>
             /\ ns = LastCall.ns_before
             /\ f_globals = LastCall.f_globals_before
             /\ sys_modules = LastCall.sys_modules_before
       /\ (/\ LastCall.op = "importall"
           /\ LastCall.globals = "ns"
           /\ ~ LastCall.at_module_level)
          => MergedNames(args) \ BUILTINS_NAMES \subseteq DOMAIN ns

---------------------------------------------------------------------------
(* C19: explicit destination. When importall() or deimportall() is given   *)
(* a mapping, an empty one included, the caller's global scope is left as *)
(* it was, and the entries importall() binds are bound in that mapping.   *)
C19_ExplicitDestination ==
    (Len(calls) >= 1 /\ LastCall.globals = "ns") =>
       /\ f_globals = LastCall.f_globals_before
       /\ (LastCall.op = "importall" /\ ~ LastCall.raised) =>
             \A x \in DOMAIN LastCall.table :
                Binding(ns, x) = <<LastCall.table[x]>>

---------------------------------------------------------------------------
(* C20: monotonic deprecation. For versions V1 <= V2, compared as pairs of *)
(* numbers, deprecated_modules(V1) is a subset of deprecated_modules(V2)  *)
(* and deprecated_names(m, V1) of deprecated_names(m, V2); an item        *)
(* recorded at floor F is in the result for the version F and in no       *)
(* result for a version below F; and deprecated_names(m) contains only    *)
(* names recorded for m.                                                   *)

\* the pair of numbers each version string asked about denotes
Denotes ==
    (<<50, 46, 55>> :> <<2, 7>>) @@ (<<51, 46, 48>> :> <<3, 0>>) @@
    (<<51, 46, 50>> :> <<3, 2>>) @@ (<<51, 46, 53>> :> <<3, 5>>) @@
    (<<51, 46, 54>> :> <<3, 6>>) @@ (<<51, 46, 56>> :> <<3, 8>>) @@
    (<<51, 46, 57>> :> <<3, 9>>) @@ (<<51, 46, 49, 48>> :> <<3, 10>>)

\* the query names a version, none (the running one) or a version string,
\* and, for names, a module of the registry
WellFormed(a) ==
    /\ a.function \in {"deprecated_modules", "deprecated_names"}
    /\ a.version = None \/ a.version.text \in DOMAIN Denotes
    /\ a.function = "deprecated_names" => a.module \in IMPORTABLE_STDLIB_MODULES

\* the version a query is about
Asked(a) == IF a.version = None THEN <<3, 9>> ELSE Denotes[a.version.text]

\* p is below q, as pairs of numbers
Below(p, q) == p[1] < q[1] \/ (p[1] = q[1] /\ p[2] < q[2])

\* the items the data records at floor F for the function and module of a
RecordedAt(a, F) ==
    IF a.function = "deprecated_modules"
    THEN IF F \in DOMAIN DEPRECATED_MODULES THEN DEPRECATED_MODULES[F] ELSE {}
    ELSE IF F \in DOMAIN DEPRECATED_NAMES /\ a.module \in DOMAIN DEPRECATED_NAMES[F]
         THEN DEPRECATED_NAMES[F][a.module] ELSE {}

Floors == DOMAIN DEPRECATED_MODULES \cup DOMAIN DEPRECATED_NAMES

C20_MonotonicDeprecation ==
    /\ (ncalls >= 1 /\ WellFormed(args)) =>
          /\ ~ symtab.raised
          /\ \A F \in Floors : \A item \in RecordedAt(args, F) :
                /\ Asked(args) = F => item \in symtab.result
                /\ Below(Asked(args), F) => item \notin symtab.result
          /\ symtab.result \subseteq UNION {RecordedAt(args, F) : F \in Floors}
    /\ (/\ ncalls >= 2
        /\ WellFormed(args) /\ WellFormed(prev_args)
        /\ args.function = prev_args.function
        /\ args.module = prev_args.module
        /\ ~ Below(Asked(args), Asked(prev_args)))
       => prev_symtab.result \subseteq symtab.result

\* deprecated_modules("3.9") and then deprecated_modules("3.10"): both
\* give the modules recorded at the floors 3.2, 3.6 and 3.9
C20_Witness ==
    /\ ncalls = 2
    /\ args.function = "deprecated_modules"
    /\ prev_args.function = "deprecated_modules"
    /\ prev_args.version = Str(<<51, 46, 57>>)
    /\ args.version = Str(<<51, 46, 49, 48>>)
    /\ ~ symtab.raised /\ ~ prev_symtab.raised
    /\ prev_symtab.result = {asynchat, binhex, optparse}
    /\ symtab.result = {asynchat, binhex, optparse}

---------------------------------------------------------------------------
(* C21: an unknown version is a hard error. deprecated_modules(),          *)
(* deprecated_names() and stdlib_public_names() asked about a version     *)
(* string that is malformed, and stdlib_public_names() asked about a      *)
(* well-formed version for which no table is recorded, raise an error     *)
(* and return no result.                                                   *)

\* the version string of the query is not of the form major.minor
Malformed(a) == a.version # None /\ a.version.text \notin DOMAIN Denotes

\* the query is for the public names of a version other than the running
\* one, the only one with a recorded table
NoTable(a) ==
    /\ a.function = "stdlib_public_names"
    /\ a.version # None
    /\ a.version.text \in DOMAIN Denotes
    /\ Denotes[a.version.text] # <<3, 9>>

C21_UnknownVersionError ==
    (ncalls >= 1 /\ (Malformed(args) \/ NoTable(args))) =>
       /\ symtab.raised
       /\ error = "ValueError"

---------------------------------------------------------------------------
(* C22: an unknown module in the deprecation filter. When the aggregation  *)
(* asks for the deprecated names of a module that has no deprecated-name   *)
(* record, whether the registry holds the module or not, the answer is    *)
(* the empty set and no error is raised.                                   *)

\* no floor of the deprecated-name table has a record for module m
NoRecord(m) == \A floor \in DOMAIN DEPRECATED_NAMES : m \notin DOMAIN DEPRECATED_NAMES[floor]

C22_UnknownModuleEmpty ==
    (/\ ncalls >= 1
     /\ args.function = "utils.deprecated_names"
     /\ NoRecord(args.module))
       => /\ ~ symtab.raised
          /\ error = ""
          /\ symtab.result = {}

\* the aggregation asked for the deprecated names of os, a module of the
\* registry that has no record, and then for those of a module that is not
\* in the registry, and got the empty set both times
C22_Witness ==
    /\ ncalls = 2
    /\ prev_args.function = "utils.deprecated_names"
    /\ prev_args.module = os
    /\ ~ prev_symtab.raised /\ prev_symtab.result = {}
    /\ args.function = "utils.deprecated_names"
    /\ args.module = INEXISTENT_MODULE
    /\ INEXISTENT_MODULE \notin IMPORTABLE_STDLIB_MODULES
    /\ ~ symtab.raised /\ symtab.result = {}

---------------------------------------------------------------------------
(* C23: cache eviction. After clean_up_import_cache(m) on a loaded module  *)
(* m the cache holds neither m, nor an identifier that starts with m and   *)
(* a dot, nor a proper dotted prefix of m, so that the next load of m runs *)
(* its top-level code again.                                               *)

\* the last call was clean_up_import_cache(m) for a module m in the cache
EvictedLoaded(a, s) ==
    /\ a.function = "clean_up_import_cache"
    /\ a.module \in s.cache_before

C23_CacheEviction ==
    /\ (ncalls >= 1 /\ EvictedLoaded(args, symtab)) =>
          /\ args.module \notin sys_modules
          /\ \A key \in sys_modules :
                /\ ~ StartsWith(key, args.module \o <<46>>)
                /\ ~ (StartsWith(args.module, key \o <<46>>))
    /\ (/\ ncalls >= 2
        /\ EvictedLoaded(prev_args, prev_symtab)
        /\ args.function = "import_module"
        /\ args.module = prev_args.module) =>
          loads[ModuleName(args.module)]
             = symtab.loads_before[ModuleName(args.module)] + 1

---------------------------------------------------------------------------
(* C29: the purge completes in every order. deimportall(purge_cache=True)  *)
(* returns without raising whatever the cache held before and in whatever *)
(* order the modules of the registry are visited, and afterwards no       *)
(* module of the registry is in the cache.                                 *)

C29_PurgeCompletes ==
    (ncalls >= 1 /\ args.function = "deimportall") =>
       /\ ~ symtab.raised
       /\ error = ""
       /\ sys_modules \cap HierarchicalModules = {}

---------------------------------------------------------------------------
(* C24: provenance filtering. The deduced public interface of a module M   *)
(* holds no name whose value is the module object of another module of    *)
(* the standard library that is no submodule of M, and no name whose      *)
(* value was defined in another module of the standard library, whether   *)
(* M declares an export list or not.                                       *)

\* the last call deduced the interface of a module and returned it
Deduced ==
    /\ ncalls >= 1
    /\ args.function = "deduce_stdlib_public_interface"
    /\ ~ symtab.raised

\* module l is another module of the standard library than m and none of
\* the submodules of m
Foreign(l, m) ==
    /\ l \in STDLIB_MODULES
    /\ l # m
    /\ ~ StartsWith(l, m \o <<46>>)

\* the value of `name` in module m is a module object, or an object
\* defined in a module, that is foreign to m
ReExported(m, name) == Foreign(TopLevel[m][name].of, m)

C24_ProvenanceFiltering ==
    Deduced => \A name \in symtab.result : ~ ReExported(args.module, name)

---------------------------------------------------------------------------
(* C25: the explicit export list comes first. The deduced interface of a   *)
(* module that declares __all__ is exactly the set of the names listed.   *)
(* The interface of a module without __all__, builtins apart, is drawn    *)
(* from its top-level names that do not start with an underscore; the     *)
(* interface of builtins is BUILTINS_NAMES, underscore names included.    *)

\* the top-level names of module m that do not start with an underscore
PublicTopLevel(m) == {name \in DOMAIN TopLevel[m] : ~ IsPrivate(name)}

C25_ExportListFirst ==
    Deduced =>
       IF args.module \in DOMAIN ExportList
       THEN symtab.result = ExportList[args.module]
       ELSE IF args.module = builtins
            THEN symtab.result = BUILTINS_NAMES
            ELSE symtab.result \subseteq PublicTopLevel(args.module)

\* the statement without the exception for builtins: every module without
\* __all__ gets an interface without underscore names
C25_NoUnderscoreName ==
    Deduced =>
       IF args.module \in DOMAIN ExportList
       THEN symtab.result = ExportList[args.module]
       ELSE symtab.result \subseteq PublicTopLevel(args.module)

\* functools, whose top level also holds namedtuple and _make_key, was
\* deduced to be its __all__, and before it uuid, which declares none
C25_Witness ==
    /\ ncalls = 2
    /\ Deduced
    /\ args.module = functools
    /\ symtab.result = {"partial", "reduce", "wraps"}
    /\ symtab.result # PublicTopLevel(functools)
    /\ prev_args.function = "deduce_stdlib_public_interface"
    /\ prev_args.module = uuid
    /\ prev_symtab.result = {"RESERVED_NCS", "UUID", "uuid4"}

---------------------------------------------------------------------------
(* C26: a deduction that fails raises DeducePublicInterfaceError, for a    *)
(* module outside the registry as for a probe that fails, and the         *)
(* generator of the static tables catches that error, reports the module  *)
(* and raises it again.                                                    *)

C26_TypedDeductionFailure ==
    /\ (/\ ncalls >= 1
        /\ args.function = "deduce_stdlib_public_interface"
        /\ symtab.raised)
          => error = "DeducePublicInterfaceError"
    /\ (/\ ncalls >= 1
        /\ args.function = "generate_stdlib_public_names"
        /\ symtab.raised)
          => /\ symtab.reported
             /\ error = "DeducePublicInterfaceError"

---------------------------------------------------------------------------
(* C27: the membership test. from_stdlib(v) is true exactly when v is the  *)
(* module object of a module of the registry or a value that a module of  *)
(* the registry exports, deprecated names included; it is false for a     *)
(* value of the caller's code, also for one that is equal to an exported  *)
(* value.                                                                  *)

\* v is a module of the registry, or the object a public name of such a
\* module is bound to
ExportedObject(v) ==
    \/ v.kind = "module" /\ v.ref[1] \in IMPORTABLE_STDLIB_MODULES
    \/ /\ v.kind = "obj"
       /\ v.ref[1] \in IMPORTABLE_STDLIB_MODULES
       /\ v.ref[2] \in STDLIB_PUBLIC_NAMES[v.ref[1]]

C27_MembershipTest ==
    (/\ ncalls >= 1
     /\ args.function = "from_stdlib"
     /\ args.symbol.kind # "proxy")
       => (symtab.result <=> ExportedObject(args.symbol))

---------------------------------------------------------------------------
(* C28: the shared tables are read-only. No sequence of get_all_symbols,   *)
(* importall, deprecated_modules, deprecated_names and stdlib_public_names *)
(* calls, with callers that change the results in between, changes the    *)
(* registry, the deprecation tables or the cached tables of public names; *)
(* a query repeated after the caller changed its result returns what it   *)
(* returned the first time.                                                *)

\* the latest two calls were the same query
Requeried ==
    /\ ncalls >= 2
    /\ "function" \in DOMAIN args
    /\ "function" \in DOMAIN prev_args
    /\ args = prev_args

C28_SharedTablesReadOnly ==
    /\ tables = SharedTables
    /\ Requeried => symtab.returned = prev_symtab.returned

\* stdlib_public_names("typing") returned Any and List, the caller removed
\* List from the set, and the same call returned Any and List again
C28_Witness ==
    /\ Requeried
    /\ args = [function |-> "stdlib_public_names", module |-> typing]
    /\ prev_symtab.returned = {"Any", "List"}
    /\ prev_symtab.result = {"Any"}
    /\ symtab.returned = {"Any", "List"}


---------------------------------------------------------------------------
(* C30: re-aggregation overwrites. After any sequence of importall() calls *)
(* that name the same namespace, with whatever priorities, ignore sets and *)
(* flags, the namespace binds every key of the last call's filtered merged *)
(* table to the last call's value, and a key that is in no call's filtered *)
(* merged table is bound as it was before the first call.                  *)

\* every call so far was importall(), all naming one namespace
Reaggregated ==
    /\ Len(calls) >= 1
    /\ \A i \in 1..Len(calls) :
          /\ calls[i].op = "importall"
          /\ calls[i].globals = calls[1].globals

\* the keys some call's filtered merged table holds
AggregatedKeys == UNION {DOMAIN calls[i].table : i \in 1..Len(calls)}

C30_ReaggregationOverwrites ==
    Reaggregated =>
       /\ \A x \in DOMAIN LastCall.table :
             Binding(DesignatedNow(LastCall), x) = <<LastCall.table[x]>>
       /\ \A x \in (Names \cup DOMAIN DesignatedBefore(calls[1])) \ AggregatedKeys :
             Binding(DesignatedNow(LastCall), x)
                = Binding(DesignatedBefore(calls[1]), x)

===========================================================================
